---- MODULE Spec2Model ----
(***************************************************************************)
(* A model of the go-tvdb client (src/tvdb.go): the custom XML field       *)
(* decoders, the URL builders, getResponse and the public methods of       *)
(* Client.                                                                 *)
(*                                                                         *)
(* Element text is a sequence of one-character strings, so that trimming   *)
(* and splitting work on characters.  URLs, parameter values and display   *)
(* names are TLA+ strings.                                                 *)
(*                                                                         *)
(* Two specifications share the variables:                                 *)
(*   SpecDecode  a field decoder is applied to one element of a response   *)
(*   Spec        one Client serves calls to its public methods             *)
(***************************************************************************)
EXTENDS Integers, Sequences, FiniteSets, TLC

VARIABLES
    decField,   \* the decoder that ran last ("none" before the first)
    decIn,      \* the element (or value) it was given
    decOut,     \* what it left in its receiver, and the error it returned
    client,     \* the Client: APIKey, BaseURL
    pc,         \* "ready" for a call, or "returned" from one
    call,       \* the public method called last and its arguments
    reqs,       \* the URLs that call passed to HTTPClient.Get, in order
    resp,       \* the HTTP response that call received
    v,          \* the record that call's getResponse decoded into
    ret         \* what the method returned

decVars == <<decField, decIn, decOut>>
callVars == <<client, pc, call, reqs, resp, v, ret>>
vars == <<decField, decIn, decOut, client, pc, call, reqs, resp, v, ret>>

(***************************************************************************)
(* Bounds                                                                  *)
(***************************************************************************)
MaxLen == 3          \* longest element text
MaxID == 2           \* largest identifier / rating value in a Rating element
MaxFlag == 100       \* ImgFlag values range over -MaxFlag..MaxFlag
MaxElems == 2        \* most child elements of one kind in a response document
RatingSlack == 2     \* ratings range from RatingSlack below 0 to RatingSlack above 10

\* Errors are records; NoErr is Go's nil error.
NoErr == [type |-> "nil"]
XMLErr == [type |-> "xml"]

(***************************************************************************)
(* Element texts                                                           *)
(***************************************************************************)
RECURSIVE SeqsUpTo(_, _)
SeqsUpTo(S, n) ==
    IF n = 0 THEN {<<>>}
    ELSE LET shorter == SeqsUpTo(S, n - 1)
         IN  shorter \cup {Append(s, ch) : s \in {t \in shorter : Len(t) = n - 1}, ch \in S}

PipeChars == {"a", "b", "|"}
NumChars == {"0", "7", "-", ".", "x"}

PipeTexts == SeqsUpTo(PipeChars, MaxLen)
NumTexts == SeqsUpTo(NumChars, MaxLen)

\* An element handed to a decoder: its character data, or XML the decoder's
\* DecodeElement call cannot read (ok = FALSE).
Elements(texts) == [ok : {TRUE}, text : texts] \cup {[ok |-> FALSE, text |-> <<>>]}

(***************************************************************************)
(* strings.Trim(s, "|") and strings.Split(s, "|")                          *)
(***************************************************************************)
RECURSIVE TrimLeft(_)
TrimLeft(s) == IF s # <<>> /\ Head(s) = "|" THEN TrimLeft(Tail(s)) ELSE s

RECURSIVE TrimRight(_)
TrimRight(s) ==
    IF s # <<>> /\ s[Len(s)] = "|" THEN TrimRight(SubSeq(s, 1, Len(s) - 1)) ELSE s

Trim(s) == TrimRight(TrimLeft(s))

\* Split never returns an empty list: Split("") is the one-element list [""].
RECURSIVE Split(_)
Split(s) ==
    IF \A i \in 1..Len(s) : s[i] # "|" THEN <<s>>
    ELSE LET i == CHOOSE k \in 1..Len(s) : s[k] = "|" /\ \A j \in 1..(k - 1) : s[j] # "|"
         IN  <<SubSeq(s, 1, i - 1)>> \o Split(SubSeq(s, i + 1, Len(s)))

\* The older clients split without looking at the content first.
pipeListUnmarshalNoEmptyCheck(p, el) ==
    IF ~el.ok THEN [recv |-> p, err |-> XMLErr]
    ELSE [recv |-> Split(Trim(el.text)), err |-> NoErr]

\* pipeList.UnmarshalXML: p is the receiver before the call.
pipeListUnmarshalXML(p, el) ==
    IF ~el.ok THEN [recv |-> p, err |-> XMLErr]
    ELSE IF el.text # <<>>
         THEN [recv |-> Split(Trim(el.text)), err |-> NoErr]
         ELSE [recv |-> <<>>, err |-> NoErr]

(***************************************************************************)
(* ImgFlag.String                                                          *)
(***************************************************************************)
ImgFlagNone == 0
ImgFlag4x3 == 1
ImgFlag16x9 == 2
ImgFlagBadAspectRatio == 3
ImgFlagTooSmall == 4
ImgFlagBlackBars == 5
ImgFlagImproperActionShot == 6

imgFlagNameMap ==
    (ImgFlagNone :> "None") @@ (ImgFlag4x3 :> "4:3") @@ (ImgFlag16x9 :> "16x9")
    @@ (ImgFlagBadAspectRatio :> "Bad Aspect Ratio")
    @@ (ImgFlagTooSmall :> "Image Too Small")
    @@ (ImgFlagBlackBars :> "Black Bars")
    @@ (ImgFlagImproperActionShot :> "Improper Action Shot")

Digit == <<"0", "1", "2", "3", "4", "5", "6", "7", "8", "9">>

\* strconv.FormatInt(n, 10)
RECURSIVE FormatNat(_)
FormatNat(n) == IF n < 10 THEN Digit[n + 1] ELSE FormatNat(n \div 10) \o Digit[(n % 10) + 1]

FormatInt(n) == IF n < 0 THEN "-" \o FormatNat(-n) ELSE FormatNat(n)

\* A String that knows only the flags IsValid accepts.
ImgFlagStringValidOnly(f) ==
    IF f \in {ImgFlag4x3, ImgFlag16x9} THEN imgFlagNameMap[f] ELSE FormatInt(f)

ImgFlagString(f) ==
    IF f \in DOMAIN imgFlagNameMap THEN imgFlagNameMap[f] ELSE FormatInt(f)

(***************************************************************************)
(* strconv.ParseInt(s, 10, 64) and strconv.ParseFloat(s, 64), on the       *)
(* characters of NumChars.  Both fail with a *strconv.NumError whose Num   *)
(* is the text they were given.                                            *)
(***************************************************************************)
DigitChars == {Digit[i] : i \in 1..10}
DigitVal(ch) == (CHOOSE i \in 1..10 : Digit[i] = ch) - 1

NumError(s) == [type |-> "NumError", Num |-> s]

RECURSIVE DigitsVal(_)
DigitsVal(s) == IF s = <<>> THEN 0 ELSE 10 * DigitsVal(SubSeq(s, 1, Len(s) - 1)) + DigitVal(s[Len(s)])

RECURSIVE Pow10(_)
Pow10(n) == IF n = 0 THEN 1 ELSE 10 * Pow10(n - 1)

AllDigits(s) == \A i \in 1..Len(s) : s[i] \in DigitChars

Unsigned(s) == IF s # <<>> /\ Head(s) = "-" THEN Tail(s) ELSE s
Sign(s) == IF s # <<>> /\ Head(s) = "-" THEN -1 ELSE 1

ParseInt(s) ==
    IF Unsigned(s) # <<>> /\ AllDigits(Unsigned(s))
    THEN [val |-> Sign(s) * DigitsVal(Unsigned(s)), err |-> NoErr]
    ELSE [val |-> 0, err |-> NumError(s)]

\* A float64 is kept as num / den, den a power of ten, in lowest such terms.
RECURSIVE Normal(_)
Normal(f) ==
    IF f.den > 1 /\ f.num % 10 = 0 THEN Normal([num |-> f.num \div 10, den |-> f.den \div 10])
    ELSE f

Float(n) == [num |-> n, den |-> 1]

ParseFloat(s) ==
    LET u == Unsigned(s)
        dots == {i \in 1..Len(u) : u[i] = "."}
        ip == IF dots = {} THEN u ELSE SubSeq(u, 1, (CHOOSE i \in dots : TRUE) - 1)
        fp == IF dots = {} THEN <<>> ELSE SubSeq(u, (CHOOSE i \in dots : TRUE) + 1, Len(u))
    IN  IF Cardinality(dots) <= 1 /\ AllDigits(ip) /\ AllDigits(fp) /\ ip \o fp # <<>>
        THEN [val |-> Normal([num |-> Sign(s) * DigitsVal(ip \o fp), den |-> Pow10(Len(fp))]),
              err |-> NoErr]
        ELSE [val |-> Float(0), err |-> NumError(s)]

\* decoder.DecodeElement(&j, &start) for an int j and for a float64 j: the
\* element's character data goes to strconv as it stands, so empty text
\* comes back as a NumError with Num == "".
DecodeElementInt(el) == IF ~el.ok THEN [val |-> 0, err |-> XMLErr] ELSE ParseInt(el.text)
DecodeElementFloat64(el) ==
    IF ~el.ok THEN [val |-> Float(0), err |-> XMLErr] ELSE ParseFloat(el.text)

(***************************************************************************)
(* nullInt and nullFloat64                                                 *)
(***************************************************************************)
NulInt == [Value |-> 0, Valid |-> FALSE]
NulFloat64 == [Value |-> Float(0), Valid |-> FALSE]

\* An UnmarshalXML that takes every successful DecodeElement, and every
\* forgiven one, as a value.
nullIntUnmarshalAlwaysValid(i, el) ==
    LET d == DecodeElementInt(el)
    IN  IF d.err.type = "NumError" /\ d.err.Num = <<>>
        THEN [recv |-> [Value |-> d.val, Valid |-> TRUE], err |-> NoErr]
        ELSE IF d.err # NoErr THEN [recv |-> i, err |-> d.err]
        ELSE [recv |-> [Value |-> d.val, Valid |-> TRUE], err |-> NoErr]

\* nullInt.UnmarshalXML: i is the receiver before the call.
nullIntUnmarshalXML(i, el) ==
    LET d == DecodeElementInt(el)
    IN  IF d.err.type = "NumError" /\ d.err.Num = <<>> THEN [recv |-> i, err |-> NoErr]
        ELSE IF d.err # NoErr THEN [recv |-> i, err |-> d.err]
        ELSE [recv |-> [Value |-> d.val, Valid |-> TRUE], err |-> NoErr]

\* nullFloat64.UnmarshalXML
nullFloat64UnmarshalXML(f, el) ==
    LET d == DecodeElementFloat64(el)
    IN  IF d.err.type = "NumError" /\ d.err.Num = <<>> THEN [recv |-> f, err |-> NoErr]
        ELSE IF d.err # NoErr THEN [recv |-> f, err |-> d.err]
        ELSE [recv |-> [Value |-> d.val, Valid |-> TRUE], err |-> NoErr]

(***************************************************************************)
(* Rating                                                                  *)
(***************************************************************************)
\* A child element that may be missing: <<>> when absent, <<n>> when present.
Opt(S) == {<<>>} \cup {<<n>> : n \in S}
OrZero(o) == IF o = <<>> THEN 0 ELSE o[1]

CommunityRatings == {Float(0), [num |-> 75, den |-> 10]}

RatingElements ==
    [ok : {TRUE}, id : Opt(0..MaxID), seriesid : Opt(0..MaxID),
     UserRating : 0..1, CommunityRating : CommunityRatings]
    \cup {[ok |-> FALSE, id |-> <<>>, seriesid |-> <<>>,
           UserRating |-> 0, CommunityRating |-> Float(0)]}

ZeroRating == [ID |-> 0, UserRating |-> 0, CommunityRating |-> Float(0)]

\* A Rating decoded like any other record: only the element named id is read.
RatingUnmarshalIDOnly(r, el) ==
    IF ~el.ok THEN [recv |-> r, err |-> XMLErr]
    ELSE [recv |-> [ID |-> OrZero(el.id), UserRating |-> el.UserRating,
                    CommunityRating |-> el.CommunityRating],
          err |-> NoErr]

\* A Rating.UnmarshalXML that lets a non-zero id win over seriesid.
RatingUnmarshalPreferID(r, el) ==
    IF ~el.ok THEN [recv |-> r, err |-> XMLErr]
    ELSE [recv |-> [ID |-> IF OrZero(el.id) # 0 THEN OrZero(el.id) ELSE OrZero(el.seriesid),
                    UserRating |-> el.UserRating,
                    CommunityRating |-> el.CommunityRating],
          err |-> NoErr]

\* Rating.UnmarshalXML: the anonymous struct is decoded first (a missing
\* child leaves its field 0), then copied, then seriesid overrides id.
RatingUnmarshalXML(r, el) ==
    IF ~el.ok THEN [recv |-> r, err |-> XMLErr]
    ELSE LET rating == [ID |-> OrZero(el.id), SeriesID |-> OrZero(el.seriesid),
                        UserRating |-> el.UserRating,
                        CommunityRating |-> el.CommunityRating]
             copied == [ID |-> rating.ID, UserRating |-> rating.UserRating,
                        CommunityRating |-> rating.CommunityRating]
         IN  [recv |-> IF rating.SeriesID # 0 THEN [copied EXCEPT !.ID = rating.SeriesID]
                       ELSE copied,
              err |-> NoErr]

(***************************************************************************)
(* SpecDecode: one decoder runs on one element.  The receiver is the zero  *)
(* value of its type, as it is in the freshly declared response record     *)
(* every method of Client decodes into.                                    *)
(***************************************************************************)
ZeroPipeList == <<>>
ImgFlags == (-MaxFlag)..MaxFlag

DecodePipeList ==
    \E el \in Elements(PipeTexts) :
        /\ decField = "none"
        /\ decField' = "pipeList"
        /\ decIn' = el
        /\ decOut' = pipeListUnmarshalXML(ZeroPipeList, el)
        /\ UNCHANGED callVars

DecodeNullInt ==
    \E el \in Elements(NumTexts) :
        /\ decField = "none"
        /\ decField' = "nullInt"
        /\ decIn' = el
        /\ decOut' = nullIntUnmarshalXML(NulInt, el)
        /\ UNCHANGED callVars

DecodeNullFloat64 ==
    \E el \in Elements(NumTexts) :
        /\ decField = "none"
        /\ decField' = "nullFloat64"
        /\ decIn' = el
        /\ decOut' = nullFloat64UnmarshalXML(NulFloat64, el)
        /\ UNCHANGED callVars

DecodeRating ==
    \E el \in RatingElements :
        /\ decField = "none"
        /\ decField' = "Rating"
        /\ decIn' = el
        /\ decOut' = RatingUnmarshalXML(ZeroRating, el)
        /\ UNCHANGED callVars

StringImgFlag ==
    \E f \in ImgFlags :
        /\ decField = "none"
        /\ decField' = "ImgFlag.String"
        /\ decIn' = f
        /\ decOut' = ImgFlagString(f)
        /\ UNCHANGED callVars

(***************************************************************************)
(* ImgFlag.UnmarshalXML                                                    *)
(***************************************************************************)
FlagChars == {"0", "1", "-", "x"}
FlagTexts == SeqsUpTo(FlagChars, MaxLen)

\* An UnmarshalXML without the look at the NumError: empty text is an error.
ImgFlagUnmarshalStrict(f, el) ==
    LET d == DecodeElementInt(el)
    IN  IF d.err # NoErr THEN [recv |-> f, err |-> d.err]
        ELSE [recv |-> d.val, err |-> NoErr]

\* ImgFlag.UnmarshalXML: f is the receiver before the call.
ImgFlagUnmarshalXML(f, el) ==
    LET d == DecodeElementInt(el)
    IN  IF d.err.type = "NumError" /\ d.err.Num = <<>> THEN [recv |-> f, err |-> NoErr]
        ELSE IF d.err # NoErr THEN [recv |-> f, err |-> d.err]
        ELSE [recv |-> d.val, err |-> NoErr]

DecodeImgFlag ==
    /\ decField = "none"
    /\ \E el \in Elements(FlagTexts) :
        /\ decField' = "ImgFlag"
        /\ decIn' = el
        /\ decOut' = ImgFlagUnmarshalXML(ImgFlagNone, el)
        /\ UNCHANGED callVars

(***************************************************************************)
(* time.Date and time.Parse for the layouts "2006-01-02 15:04:05" and      *)
(* "2006-01-02".  An instant is a record of its UTC calendar fields.       *)
(***************************************************************************)
IsLeap(year) == year % 4 = 0 /\ (year % 100 # 0 \/ year % 400 = 0)

daysIn(month, year) ==
    IF month = 2 THEN (IF IsLeap(year) THEN 29 ELSE 28)
    ELSE IF month \in {4, 6, 9, 11} THEN 30 ELSE 31

\* time.Date(year, month, day, hour, min, sec, nsec, time.UTC), which takes a
\* day 0 as the last day of the month before.
timeDate(year, month, day, hour, min, sec, nsec) ==
    LET y == IF day = 0 /\ month = 1 THEN year - 1 ELSE year
        m == IF day = 0 THEN (IF month = 1 THEN 12 ELSE month - 1) ELSE month
        d == IF day = 0 THEN daysIn(m, y) ELSE day
    IN  [year |-> y, month |-> m, day |-> d, hour |-> hour, min |-> min, sec |-> sec,
         nsec |-> nsec]

\* time.Time{}: January 1 of the year 1, 00:00:00 UTC.
ZeroTime == timeDate(1, 1, 1, 0, 0, 0, 0)

ParseError == [type |-> "ParseError"]

isDigit(s, i) == i <= Len(s) /\ s[i] \in DigitChars
Rest(s, n) == SubSeq(s, n + 1, Len(s))

RECURSIVE cutspace(_)
cutspace(s) == IF s # <<>> /\ Head(s) = " " THEN cutspace(Tail(s)) ELSE s

\* The parser's progress: the fields read so far and the text still to read.
ParseStart(value) ==
    [ok |-> TRUE, rest |-> value, year |-> 0, month |-> 1, day |-> 1,
     hour |-> 0, min |-> 0, sec |-> 0, nsec |-> 0]
Bad(st) == [st EXCEPT !.ok = FALSE]

\* stdLongYear: four characters, all digits.
stepYear(st) ==
    IF ~st.ok THEN st
    ELSE IF Len(st.rest) < 4 \/ ~AllDigits(SubSeq(st.rest, 1, 4)) THEN Bad(st)
    ELSE [st EXCEPT !.year = DigitsVal(SubSeq(st.rest, 1, 4)), !.rest = Rest(st.rest, 4)]

\* skip: a literal character of the layout; a space of the layout stands for
\* any run of spaces in the value.
stepSkip(st, ch) ==
    IF ~st.ok THEN st
    ELSE IF ch = " "
         THEN (IF st.rest # <<>> /\ Head(st.rest) # " " THEN Bad(st)
               ELSE [st EXCEPT !.rest = cutspace(st.rest)])
    ELSE IF st.rest = <<>> \/ Head(st.rest) # ch THEN Bad(st)
    ELSE [st EXCEPT !.rest = Tail(st.rest)]

\* getnum, then the range check of the field: one or two digits, two when
\* fixed.
stepNum(st, f, fixed, lo, hi) ==
    IF ~st.ok THEN st
    ELSE IF ~isDigit(st.rest, 1) THEN Bad(st)
    ELSE IF ~isDigit(st.rest, 2)
         THEN (IF fixed \/ DigitVal(st.rest[1]) < lo THEN Bad(st)
               ELSE [st EXCEPT ![f] = DigitVal(st.rest[1]), !.rest = Rest(st.rest, 1)])
    ELSE LET n == DigitsVal(SubSeq(st.rest, 1, 2))
         IN  IF n < lo \/ n > hi THEN Bad(st)
             ELSE [st EXCEPT ![f] = n, !.rest = Rest(st.rest, 2)]

\* After the seconds a fractional second is read although the layout has
\* none: a "." and the digits that follow it.
stepFraction(st) ==
    IF ~st.ok THEN st
    ELSE IF Len(st.rest) >= 2 /\ st.rest[1] = "." /\ isDigit(st.rest, 2)
    THEN LET n == CHOOSE k \in 2..Len(st.rest) :
                      /\ \A i \in 2..k : isDigit(st.rest, i)
                      /\ ~isDigit(st.rest, k + 1)
         IN  IF n > 10 THEN Bad(st)
             ELSE [st EXCEPT !.nsec = DigitsVal(SubSeq(st.rest, 2, n)) * Pow10(10 - n),
                             !.rest = Rest(st.rest, n)]
    ELSE st

\* The end of the layout: text left over is an error, and so is a day the
\* month does not have.
stepEnd(st) ==
    IF ~st.ok THEN st
    ELSE IF st.rest # <<>> \/ st.day < 1 \/ st.day > daysIn(st.month, st.year) THEN Bad(st)
    ELSE st

parseDate(st) ==
    stepNum(stepSkip(stepNum(stepSkip(stepYear(st), "-"), "month", TRUE, 1, 12), "-"),
            "day", TRUE, 0, 99)

parseClock(st) ==
    stepFraction(
        stepNum(stepSkip(stepNum(stepSkip(stepNum(stepSkip(st, " "), "hour", FALSE, 0, 23),
                                          ":"), "min", TRUE, 0, 59), ":"),
                "sec", TRUE, 0, 59))

Parsed(st) ==
    IF st.ok
    THEN [val |-> timeDate(st.year, st.month, st.day, st.hour, st.min, st.sec, st.nsec),
          err |-> NoErr]
    ELSE [val |-> ZeroTime, err |-> ParseError]

\* time.Parse(layout, value)
timeParse(layout, value) ==
    IF layout = "2006-01-02 15:04:05"
    THEN Parsed(stepEnd(parseClock(parseDate(ParseStart(value)))))
    ELSE Parsed(stepEnd(parseDate(ParseStart(value))))

(***************************************************************************)
(* dateTime and date                                                       *)
(***************************************************************************)
DateTime(year, month, day, hour, min, sec) == timeDate(year, month, day, hour, min, sec, 0)
NullDateTime == DateTime(0, 1, 0, 0, 0, 0)
ZeroDateTime == ZeroTime
ZeroDate == ZeroTime

\* The texts: a year, a month and a day joined by "-", then for a timestamp a
\* separator and a clock, then what may follow.
YearTexts == {<<"2", "0", "1", "1">>, <<"1", "1">>}
MonthTexts == {<<"0", "5">>, <<"1", "3">>, <<"5">>}
DayTexts == {<<"3", "1">>, <<"3", "2">>}
SepTexts == {<<" ">>, <<" ", " ">>, <<"T">>}
HourTexts == {<<"0", "2">>, <<"2">>, <<"2", "4">>}
MinTexts == {<<"3", "8">>, <<"6", "0">>}
SecTexts == {<<"0", "5">>}
TailTexts == {<<>>, <<".", "5">>, <<"x">>}

DayTextsOf == {y \o <<"-">> \o m \o <<"-">> \o d : y \in YearTexts, m \in MonthTexts, d \in DayTexts}
ClockTexts ==
    {sp \o h \o <<":">> \o mi \o <<":">> \o se :
        sp \in SepTexts, h \in HourTexts, mi \in MinTexts, se \in SecTexts}
DateTimeTexts == {<<>>} \cup {d \o c \o t : d \in DayTextsOf, c \in ClockTexts, t \in TailTexts}
DateTexts ==
    {<<>>} \cup {d \o t : d \in DayTextsOf,
                         t \in TailTexts \cup {<<" ", "0", "2", ":", "3", "8", ":", "0", "5">>}}

\* A dateTime decoder that, like date, leaves its receiver alone on empty text.
dateTimeUnmarshalNoSentinel(t, el) ==
    IF ~el.ok THEN [recv |-> t, err |-> XMLErr]
    ELSE IF el.text = <<>> THEN [recv |-> t, err |-> NoErr]
    ELSE LET p == timeParse("2006-01-02 15:04:05", el.text)
         IN  [recv |-> p.val, err |-> p.err]

\* dateTime.UnmarshalXML: t is the receiver before the call; t.Time takes
\* what time.Parse returns, the zero Time when it fails.
dateTimeUnmarshalXML(t, el) ==
    IF ~el.ok THEN [recv |-> t, err |-> XMLErr]
    ELSE IF el.text = <<>> THEN [recv |-> NullDateTime, err |-> NoErr]
    ELSE LET p == timeParse("2006-01-02 15:04:05", el.text)
         IN  [recv |-> p.val, err |-> p.err]

\* A date decoder that takes the sentinel of dateTime for empty text.
dateUnmarshalSentinel(t, el) ==
    IF ~el.ok THEN [recv |-> t, err |-> XMLErr]
    ELSE IF el.text = <<>> THEN [recv |-> NullDateTime, err |-> NoErr]
    ELSE LET p == timeParse("2006-01-02", el.text)
         IN  [recv |-> p.val, err |-> p.err]

\* date.UnmarshalXML
dateUnmarshalXML(t, el) ==
    IF ~el.ok THEN [recv |-> t, err |-> XMLErr]
    ELSE IF el.text = <<>> THEN [recv |-> t, err |-> NoErr]
    ELSE LET p == timeParse("2006-01-02", el.text)
         IN  [recv |-> p.val, err |-> p.err]

DecodeDateTime ==
    /\ decField = "none"
    /\ \E el \in Elements(DateTimeTexts) :
        /\ decField' = "dateTime"
        /\ decIn' = el
        /\ decOut' = dateTimeUnmarshalXML(ZeroDateTime, el)
        /\ UNCHANGED callVars

DecodeDate ==
    /\ decField = "none"
    /\ \E el \in Elements(DateTexts) :
        /\ decField' = "date"
        /\ decIn' = el
        /\ decOut' = dateUnmarshalXML(ZeroDate, el)
        /\ UNCHANGED callVars

\* The next element is decoded into a receiver of its own.
NextElement ==
    /\ decField # "none"
    /\ decField' = "none"
    /\ decIn' = <<>>
    /\ decOut' = <<>>
    /\ UNCHANGED callVars

(***************************************************************************)
(* The Client and its URLs                                                 *)
(***************************************************************************)
APIKeys == {"90D7DF3AE9E4841E", "0629B785CE550C8D"}
DefaultBaseURL == [Scheme |-> "http", Host |-> "thetvdb.com", Path |-> "", RawQuery |-> ""]
BaseURLs ==
    {DefaultBaseURL, [Scheme |-> "http", Host |-> "127.0.0.1:8080", Path |-> "", RawQuery |-> ""]}

NewClient(apiKey) ==
    [APIKey |-> apiKey, BaseURL |-> DefaultBaseURL, HTTPClient |-> "&http.Client{}"]

\* url.QueryEscape, on the values the calls below are given.
QueryEscape(s) ==
    CASE s = "The Simpsons" -> "The+Simpsons"
      [] s = "a&b=c" -> "a%26b%3Dc"
      [] OTHER -> s

\* url.Values.Encode: the parameters sorted by key, escaped, joined by "&".
\* SortedKeys lists every key a call sets, in byte order.
SortedKeys ==
    <<"accountid", "apikey", "function", "imdbid", "itemid", "itemtype", "language",
      "rating", "searchseriesid", "seriesid", "seriesname", "string", "tab", "type",
      "zap2it">>

RECURSIVE EncodeFrom(_, _, _)
EncodeFrom(query, k, first) ==
    IF k > Len(SortedKeys) THEN ""
    ELSE IF SortedKeys[k] \in DOMAIN query
         THEN (IF first THEN "" ELSE "&") \o QueryEscape(SortedKeys[k]) \o "="
              \o QueryEscape(query[SortedKeys[k]]) \o EncodeFrom(query, k + 1, FALSE)
         ELSE EncodeFrom(query, k + 1, first)

Encode(query) == EncodeFrom(query, 1, TRUE)

\* url.Values.Set
Set(query, key, value) == (key :> value) @@ query
EmptyValues == [k \in {} |-> ""]

\* Client.apiURL: a copy of BaseURL with the path and the query filled in.
apiURL(c, path, query) ==
    [Scheme |-> c.BaseURL.Scheme, Host |-> c.BaseURL.Host,
     Path |-> "api/" \o path, RawQuery |-> Encode(query)]

\* A staticAPIURL that starts from the BaseURL of NewClient.
staticAPIURLDefaultBase(c, path) ==
    [Scheme |-> DefaultBaseURL.Scheme, Host |-> DefaultBaseURL.Host,
     Path |-> "api/" \o c.APIKey \o "/" \o path, RawQuery |-> ""]

\* Client.staticAPIURL
staticAPIURL(c, path) ==
    [Scheme |-> c.BaseURL.Scheme, Host |-> c.BaseURL.Host,
     Path |-> "api/" \o c.APIKey \o "/" \o path, RawQuery |-> ""]

\* url.URL.String, for a URL with a host and a relative or empty path.
URLString(u) ==
    u.Scheme \o "://" \o u.Host \o (IF u.Path # "" THEN "/" \o u.Path ELSE "")
    \o (IF u.RawQuery # "" THEN "?" \o u.RawQuery ELSE "")

(***************************************************************************)
(* What the server may answer, and getResponse                             *)
(***************************************************************************)
StatusOK == 200
StatusCodes == {StatusOK, 404, 500}

\* The child elements of one kind in a document, by identity, in document
\* order: the sequences over 1..MaxElems without repetition.
ElemSeqs ==
    {q \in SeqsUpTo(1..MaxElems, MaxElems) : \A i, j \in 1..Len(q) : i # j => q[i] # q[j]}
\* The Episode elements of a document: 1, 2, ... in order.
EpisodeSeqs == {[i \in 1..n |-> i] : n \in 0..MaxElems}

\* A response body.  items are the elements the called method collects
\* (Language, Series, Actor), episodes its Episode elements.  A body that
\* is not well formed holds the elements that precede its syntax error.
Bodies == [wellformed : BOOLEAN, items : ElemSeqs, episodes : EpisodeSeqs]
ErrorBodies == {b \in Bodies : Len(b.items) <= 1 /\ b.episodes = <<>>}

Outcomes ==
    {[kind |-> "transport", StatusCode |-> 0,
      body |-> [wellformed |-> FALSE, items |-> <<>>, episodes |-> <<>>]]}
    \cup [kind : {"response"}, StatusCode : {StatusOK}, body : Bodies]
    \cup [kind : {"response"}, StatusCode : StatusCodes \ {StatusOK}, body : ErrorBodies]

NoResp ==
    [received |-> FALSE, StatusCode |-> 0, closed |-> FALSE,
     body |-> [wellformed |-> FALSE, items |-> <<>>, episodes |-> <<>>]]
Received(o, closed) ==
    [received |-> TRUE, StatusCode |-> o.StatusCode, closed |-> closed, body |-> o.body]

\* The value getResponse decodes into: nil, or a pointer to a record.
NilTarget == [nil |-> TRUE, items |-> <<>>, episodes |-> <<>>]
ZeroResponse == [nil |-> FALSE, items |-> <<>>, episodes |-> <<>>]

\* A slice field: each matching element, in the order of the document, is
\* decoded and appended.
RECURSIVE appendEach(_, _)
appendEach(slice, elems) ==
    IF elems = <<>> THEN slice ELSE appendEach(Append(slice, Head(elems)), Tail(elems))

\* A Decode that keeps, as for a field that is no slice, the last element only.
DecodeLastOnly(target, body) ==
    IF target.nil THEN [v |-> target, err |-> [type |-> "nonpointer"]]
    ELSE [v |-> [nil |-> FALSE,
                 items |-> IF body.items = <<>> THEN target.items
                           ELSE <<body.items[Len(body.items)]>>,
                 episodes |-> appendEach(target.episodes, body.episodes)],
          err |-> IF body.wellformed THEN NoErr ELSE XMLErr]

\* xml.Decoder.Decode(v): nil is refused; otherwise the record is filled
\* element by element, up to the end or to the syntax error.
Decode(target, body) ==
    IF target.nil THEN [v |-> target, err |-> [type |-> "nonpointer"]]
    ELSE [v |-> [nil |-> FALSE,
                 items |-> appendEach(target.items, body.items),
                 episodes |-> appendEach(target.episodes, body.episodes)],
          err |-> IF body.wellformed THEN NoErr ELSE XMLErr]

\* A getResponse that tries once more when the transport fails.
getResponseRetry(c, u, target, o) ==
    IF o.kind = "transport"
    THEN [gets |-> <<u, u>>, err |-> [type |-> "transport"], v |-> target, resp |-> NoResp]
    ELSE IF o.StatusCode # StatusOK
    THEN [gets |-> <<u>>, err |-> [type |-> "status", url |-> u, code |-> o.StatusCode],
          v |-> target, resp |-> Received(o, FALSE)]
    ELSE LET d == Decode(target, o.body)
         IN  [gets |-> <<u>>, err |-> d.err, v |-> d.v, resp |-> Received(o, TRUE)]

\* A getResponse that decodes before it looks at the status.
getResponseDecodeFirst(c, u, target, o) ==
    IF o.kind = "transport"
    THEN [gets |-> <<u>>, err |-> [type |-> "transport"], v |-> target, resp |-> NoResp]
    ELSE LET d == Decode(target, o.body)
         IN  IF o.StatusCode # StatusOK
             THEN [gets |-> <<u>>, err |-> [type |-> "status", url |-> u, code |-> o.StatusCode],
                   v |-> d.v, resp |-> Received(o, TRUE)]
             ELSE [gets |-> <<u>>, err |-> d.err, v |-> d.v, resp |-> Received(o, TRUE)]

\* Client.getResponse(url, v) when the server's answer is o.  gets are the
\* URLs passed to HTTPClient.Get; the body is closed by the deferred Close,
\* which is registered only after the status check.
getResponse(c, u, target, o) ==
    IF o.kind = "transport"
    THEN [gets |-> <<u>>, err |-> [type |-> "transport"], v |-> target, resp |-> NoResp]
    ELSE IF o.StatusCode # StatusOK
    THEN [gets |-> <<u>>, err |-> [type |-> "status", url |-> u, code |-> o.StatusCode],
          v |-> target, resp |-> Received(o, FALSE)]
    ELSE LET d == Decode(target, o.body)
         IN  [gets |-> <<u>>, err |-> d.err, v |-> d.v, resp |-> Received(o, TRUE)]

(***************************************************************************)
(* The public methods of Client.  Each takes the server's answer o and     *)
(* yields what getResponse did (gr) and what the method returns: the error *)
(* and the other results (vals), or a run-time panic.                      *)
(***************************************************************************)
Nil == [kind |-> "nil"]
\* A slice of decoded elements; a slice nothing was appended to is nil.
List(q) == IF q = <<>> THEN Nil ELSE [kind |-> "list", items |-> q]
\* A pointer to a record field: the zero record (0) when no element matched,
\* else the record of the last matching element.
Ptr(q) == [kind |-> "ptr", id |-> IF q = <<>> THEN 0 ELSE q[Len(q)]]

Returns(gr, err, vals) == [gr |-> gr, err |-> err, vals |-> vals, panic |-> FALSE]
Panics(gr) == [gr |-> gr, err |-> NoErr, vals |-> <<>>, panic |-> TRUE]

Languages(c, o) ==
    LET u == staticAPIURL(c, "languages.xml")
        gr == getResponse(c, URLString(u), ZeroResponse, o)
    IN  IF gr.err # NoErr THEN Returns(gr, gr.err, <<Nil>>)
        ELSE Returns(gr, NoErr, <<List(gr.v.items)>>)

\* A SearchSeries that sends the language whatever it is.
SearchSeriesAlwaysLanguage(c, term, lang, o) ==
    LET query == Set(Set(EmptyValues, "seriesname", term), "language", lang)
        u == apiURL(c, "GetSeries.php", query)
        gr == getResponse(c, URLString(u), ZeroResponse, o)
    IN  IF gr.err # NoErr THEN Returns(gr, gr.err, <<Nil>>)
        ELSE Returns(gr, NoErr, <<List(gr.v.items)>>)

SearchSeries(c, term, lang, o) ==
    LET q0 == Set(EmptyValues, "seriesname", term)
        query == IF lang # "" THEN Set(q0, "language", lang) ELSE q0
        u == apiURL(c, "GetSeries.php", query)
        gr == getResponse(c, URLString(u), ZeroResponse, o)
    IN  IF gr.err # NoErr THEN Returns(gr, gr.err, <<Nil>>)
        ELSE Returns(gr, NoErr, <<List(gr.v.items)>>)

\* A SeriesByID that takes the language as it is given.
SeriesByIDNoDefault(c, id, lang, o) ==
    LET u == staticAPIURL(c, "series/" \o FormatInt(id) \o "/" \o lang \o ".xml")
        gr == getResponse(c, URLString(u), ZeroResponse, o)
    IN  IF gr.err # NoErr THEN Returns(gr, gr.err, <<Nil>>)
        ELSE Returns(gr, NoErr, <<Ptr(gr.v.items)>>)

SeriesByID(c, id, lang, o) ==
    LET l == IF lang = "" THEN "en" ELSE lang
        u == staticAPIURL(c, "series/" \o FormatInt(id) \o "/" \o l \o ".xml")
        gr == getResponse(c, URLString(u), ZeroResponse, o)
    IN  IF gr.err # NoErr THEN Returns(gr, gr.err, <<Nil>>)
        ELSE Returns(gr, NoErr, <<Ptr(gr.v.items)>>)

SeriesByRemoteID(c, service, id, lang, o) ==
    LET q0 == Set(EmptyValues, service, id)
        query == IF lang # "" THEN Set(q0, "language", lang) ELSE q0
        u == apiURL(c, "GetSeriesByRemoteID.php", query)
        gr == getResponse(c, URLString(u), ZeroResponse, o)
    IN  IF gr.err # NoErr THEN Returns(gr, gr.err, <<Nil>>)
        ELSE Returns(gr, NoErr, <<Ptr(gr.v.items)>>)

\* A SeriesAllByID that hands back what was decoded before the error.
SeriesAllByIDPartial(c, id, lang, o) ==
    LET u == staticAPIURL(c, "series/" \o FormatInt(id) \o "/all/" \o lang \o ".xml")
        gr == getResponse(c, URLString(u), ZeroResponse, o)
    IN  Returns(gr, gr.err, <<Ptr(gr.v.items), List(gr.v.episodes)>>)

SeriesAllByID(c, id, lang, o) ==
    LET u == staticAPIURL(c, "series/" \o FormatInt(id) \o "/all/" \o lang \o ".xml")
        gr == getResponse(c, URLString(u), ZeroResponse, o)
    IN  IF gr.err # NoErr THEN Returns(gr, gr.err, <<Nil, Nil>>)
        ELSE Returns(gr, NoErr, <<Ptr(gr.v.items), List(gr.v.episodes)>>)

ActorsBySeries(c, id, o) ==
    LET u == staticAPIURL(c, "series/" \o FormatInt(id) \o "/actors.xml")
        gr == getResponse(c, URLString(u), ZeroResponse, o)
    IN  IF gr.err # NoErr THEN Returns(gr, gr.err, <<Nil>>)
        ELSE Returns(gr, NoErr, <<List(gr.v.items)>>)

EpisodeByID(c, id, lang, o) ==
    LET u == staticAPIURL(c, "episodes/" \o FormatInt(id) \o "/" \o lang \o ".xml")
        gr == getResponse(c, URLString(u), ZeroResponse, o)
    IN  IF gr.err # NoErr THEN Returns(gr, gr.err, <<Nil>>)
        ELSE Returns(gr, NoErr, <<Ptr(gr.v.episodes)>>)

episodeBySeries(c, id, epNum, lang, order, o) ==
    LET u == staticAPIURL(c, "series/" \o FormatInt(id) \o "/" \o order \o "/" \o epNum
                             \o "/" \o lang \o ".xml")
        gr == getResponse(c, URLString(u), ZeroResponse, o)
    IN  IF gr.err # NoErr THEN Returns(gr, gr.err, <<Nil>>)
        ELSE Returns(gr, NoErr, <<Ptr(gr.v.episodes)>>)

EpisodeBySeries(c, id, season, episode, lang, o) ==
    episodeBySeries(c, id, FormatInt(season) \o "/" \o FormatInt(episode), lang, "default", o)

\* An EpisodeBySeriesDVD that asks for the default ordering.
EpisodeBySeriesDVDDefaultOrder(c, id, season, episode, lang, o) ==
    episodeBySeries(c, id, FormatInt(season) \o "/" \o FormatInt(episode), lang, "default", o)

EpisodeBySeriesDVD(c, id, season, episode, lang, o) ==
    episodeBySeries(c, id, FormatInt(season) \o "/" \o FormatInt(episode), lang, "dvd", o)

EpisodeBySeriesAbsolute(c, id, episode, lang, o) ==
    episodeBySeries(c, id, FormatInt(episode), lang, "absolute", o)

\* A userFavs that sends the type of an action without the series.
userFavsTypeOnly(c, accountID, actionType, seriesID, o) ==
    LET q0 == Set(EmptyValues, "accountid", accountID)
        query == IF actionType # "" THEN Set(q0, "type", actionType) ELSE q0
        u == apiURL(c, "User_Favorites.php", query)
        gr == getResponse(c, URLString(u), ZeroResponse, o)
    IN  IF gr.err # NoErr THEN Returns(gr, gr.err, <<Nil>>)
        ELSE Returns(gr, NoErr, <<List(gr.v.items)>>)

userFavs(c, accountID, actionType, seriesID, o) ==
    LET q0 == Set(EmptyValues, "accountid", accountID)
        query == IF actionType # ""
                 THEN Set(Set(q0, "type", actionType), "seriesid", FormatInt(seriesID))
                 ELSE q0
        u == apiURL(c, "User_Favorites.php", query)
        gr == getResponse(c, URLString(u), ZeroResponse, o)
    IN  IF gr.err # NoErr THEN Returns(gr, gr.err, <<Nil>>)
        ELSE Returns(gr, NoErr, <<List(gr.v.items)>>)

UserFavs(c, accountID, o) == userFavs(c, accountID, "", 0, o)
UserFavAdd(c, accountID, seriesID, o) == userFavs(c, accountID, "add", seriesID, o)
UserFavRemove(c, accountID, seriesID, o) == userFavs(c, accountID, "remove", seriesID, o)

\* Client.userRatings: the ratingResult is gr.v, its SerRatings the items
\* and its EpRatings the episodes.
userRatings(c, accountID, seriesID, o) ==
    LET q0 == Set(Set(EmptyValues, "apikey", c.APIKey), "accountid", accountID)
        query == IF seriesID # 0 THEN Set(q0, "seriesid", FormatInt(seriesID)) ELSE q0
        u == apiURL(c, "GetRatingsForUser.php", query)
    IN  getResponse(c, URLString(u), ZeroResponse, o)

UserRatings(c, accountID, o) ==
    LET gr == userRatings(c, accountID, 0, o)
    IN  IF gr.err # NoErr THEN Returns(gr, gr.err, <<Nil>>)
        ELSE Returns(gr, NoErr, <<List(gr.v.items)>>)

\* SerRatings[0] is taken without a look at the length of SerRatings.
UserRatingsSeries(c, accountID, seriesID, o) ==
    LET gr == userRatings(c, accountID, seriesID, o)
    IN  IF gr.err # NoErr THEN Returns(gr, gr.err, <<Nil, Nil>>)
        ELSE IF gr.v.items = <<>> THEN Panics(gr)
        ELSE Returns(gr, NoErr, <<[kind |-> "ptr", id |-> gr.v.items[1]], List(gr.v.episodes)>>)

MinRating == 0
MaxRating == 10
NoGet == [gets |-> <<>>, err |-> [type |-> "validation"], v |-> NilTarget, resp |-> NoResp]

\* A setUserRating that leaves the range check to the server.
setUserRatingUnchecked(c, accountID, itemType, itemID, rating, o) ==
    LET query == Set(Set(Set(Set(EmptyValues, "accountid", accountID), "itemtype", itemType),
                         "itemid", FormatInt(itemID)), "rating", FormatInt(rating))
        u == apiURL(c, "User_Rating.php", query)
        gr == getResponse(c, URLString(u), NilTarget, o)
    IN  Returns(gr, gr.err, <<>>)

\* A setUserRating that leaves the rating out of the query.
setUserRatingNoRating(c, accountID, itemType, itemID, rating, o) ==
    IF rating < MinRating \/ rating > MaxRating THEN Returns(NoGet, NoGet.err, <<>>)
    ELSE LET query == Set(Set(Set(EmptyValues, "accountid", accountID), "itemtype", itemType),
                          "itemid", FormatInt(itemID))
             u == apiURL(c, "User_Rating.php", query)
             gr == getResponse(c, URLString(u), NilTarget, o)
         IN  Returns(gr, gr.err, <<>>)

\* Client.setUserRating: the range check comes before anything else; the
\* response is decoded into nil.
setUserRating(c, accountID, itemType, itemID, rating, o) ==
    IF rating < MinRating \/ rating > MaxRating THEN Returns(NoGet, NoGet.err, <<>>)
    ELSE LET query == Set(Set(Set(Set(EmptyValues, "accountid", accountID), "itemtype", itemType),
                              "itemid", FormatInt(itemID)), "rating", FormatInt(rating))
             u == apiURL(c, "User_Rating.php", query)
             gr == getResponse(c, URLString(u), NilTarget, o)
         IN  Returns(gr, gr.err, <<>>)

SetUserRatingSeries(c, accountID, seriesID, rating, o) ==
    setUserRating(c, accountID, "series", seriesID, rating, o)
SetUserRatingEp(c, accountID, epID, rating, o) ==
    setUserRating(c, accountID, "episode", epID, rating, o)

UserLang(c, accountID, o) ==
    LET u == apiURL(c, "User_PreferredLanguage.php", Set(EmptyValues, "accountid", accountID))
        gr == getResponse(c, URLString(u), ZeroResponse, o)
    IN  IF gr.err # NoErr THEN Returns(gr, gr.err, <<Nil>>)
        ELSE Returns(gr, NoErr, <<Ptr(gr.v.items)>>)

(***************************************************************************)
(* Spec: calls on one Client                                               *)
(***************************************************************************)
IDs == 1..MaxID
SeasonNumbers == {0, 1}
EpisodeNumbers == {1, 12}
Langs == {"", "en", "de"}
Terms == {"The Simpsons", "a&b=c"}
AccountIDs == {"34A8615ABE815874"}
RemoteServices == {"imdbid", "zap2it"}
RemoteIDs == {"tt0096697"}
Ratings == (MinRating - RatingSlack)..(MaxRating + RatingSlack)

NoCall == [method |-> "none"]
NoRet == [err |-> NoErr, vals |-> <<>>, panic |-> FALSE]

Init ==
    /\ decField = "none"
    /\ decIn = <<>>
    /\ decOut = <<>>
    /\ client \in {NewClient(k) : k \in APIKeys}
    /\ pc = "ready"
    /\ call = NoCall
    /\ reqs = <<>>
    /\ resp = NoResp
    /\ v = NilTarget
    /\ ret = NoRet

\* The caller's view of one call: r is what the method did and returned.
Done(method, args, r) ==
    /\ pc' = "returned"
    /\ call' = [method |-> method, args |-> args]
    /\ reqs' = r.gr.gets
    /\ resp' = r.gr.resp
    /\ v' = r.gr.v
    /\ ret' = [err |-> r.err, vals |-> r.vals, panic |-> r.panic]
    /\ UNCHANGED <<client, decVars>>

\* BaseURL is an exported field: the tests point it at a local server.
OverrideBaseURL ==
    /\ pc = "ready"
    /\ \E b \in BaseURLs : client' = [client EXCEPT !.BaseURL = b]
    /\ UNCHANGED <<pc, call, reqs, resp, v, ret, decVars>>

\* The caller is done with the results and may call again.
Discard ==
    /\ pc = "returned"
    /\ pc' = "ready"
    /\ call' = NoCall
    /\ reqs' = <<>>
    /\ resp' = NoResp
    /\ v' = NilTarget
    /\ ret' = NoRet
    /\ UNCHANGED <<client, decVars>>

CallLanguages ==
    /\ pc = "ready"
    /\ \E o \in Outcomes : Done("Languages", <<>>, Languages(client, o))

CallSearchSeries ==
    /\ pc = "ready"
    /\ \E term \in Terms, lang \in Langs, o \in Outcomes :
        Done("SearchSeries", [term |-> term, lang |-> lang], SearchSeries(client, term, lang, o))

CallSeriesByID ==
    /\ pc = "ready"
    /\ \E id \in IDs, lang \in Langs, o \in Outcomes :
        Done("SeriesByID", [id |-> id, lang |-> lang], SeriesByID(client, id, lang, o))

CallSeriesByRemoteID ==
    /\ pc = "ready"
    /\ \E service \in RemoteServices, id \in RemoteIDs, lang \in Langs, o \in Outcomes :
        Done("SeriesByRemoteID", [service |-> service, id |-> id, lang |-> lang],
             SeriesByRemoteID(client, service, id, lang, o))

CallSeriesAllByID ==
    /\ pc = "ready"
    /\ \E id \in IDs, lang \in Langs, o \in Outcomes :
        Done("SeriesAllByID", [id |-> id, lang |-> lang], SeriesAllByID(client, id, lang, o))

CallActorsBySeries ==
    /\ pc = "ready"
    /\ \E id \in IDs, o \in Outcomes :
        Done("ActorsBySeries", [id |-> id], ActorsBySeries(client, id, o))

CallEpisodeByID ==
    /\ pc = "ready"
    /\ \E id \in IDs, lang \in Langs, o \in Outcomes :
        Done("EpisodeByID", [id |-> id, lang |-> lang], EpisodeByID(client, id, lang, o))

CallEpisodeBySeries ==
    /\ pc = "ready"
    /\ \E id \in IDs, season \in SeasonNumbers, episode \in EpisodeNumbers, lang \in Langs,
       o \in Outcomes :
        Done("EpisodeBySeries",
             [id |-> id, season |-> season, episode |-> episode, lang |-> lang],
             EpisodeBySeries(client, id, season, episode, lang, o))

CallEpisodeBySeriesDVD ==
    /\ pc = "ready"
    /\ \E id \in IDs, season \in SeasonNumbers, episode \in EpisodeNumbers, lang \in Langs,
       o \in Outcomes :
        Done("EpisodeBySeriesDVD",
             [id |-> id, season |-> season, episode |-> episode, lang |-> lang],
             EpisodeBySeriesDVD(client, id, season, episode, lang, o))

CallEpisodeBySeriesAbsolute ==
    /\ pc = "ready"
    /\ \E id \in IDs, episode \in EpisodeNumbers, lang \in Langs, o \in Outcomes :
        Done("EpisodeBySeriesAbsolute", [id |-> id, episode |-> episode, lang |-> lang],
             EpisodeBySeriesAbsolute(client, id, episode, lang, o))

CallUserFavs ==
    /\ pc = "ready"
    /\ \E accountID \in AccountIDs, o \in Outcomes :
        Done("UserFavs", [accountID |-> accountID], UserFavs(client, accountID, o))

CallUserFavAdd ==
    /\ pc = "ready"
    /\ \E accountID \in AccountIDs, seriesID \in IDs, o \in Outcomes :
        Done("UserFavAdd", [accountID |-> accountID, seriesID |-> seriesID],
             UserFavAdd(client, accountID, seriesID, o))

CallUserFavRemove ==
    /\ pc = "ready"
    /\ \E accountID \in AccountIDs, seriesID \in IDs, o \in Outcomes :
        Done("UserFavRemove", [accountID |-> accountID, seriesID |-> seriesID],
             UserFavRemove(client, accountID, seriesID, o))

CallUserRatings ==
    /\ pc = "ready"
    /\ \E accountID \in AccountIDs, o \in Outcomes :
        Done("UserRatings", [accountID |-> accountID], UserRatings(client, accountID, o))

CallUserRatingsSeries ==
    /\ pc = "ready"
    /\ \E accountID \in AccountIDs, seriesID \in 0..MaxID, o \in Outcomes :
        Done("UserRatingsSeries", [accountID |-> accountID, seriesID |-> seriesID],
             UserRatingsSeries(client, accountID, seriesID, o))

CallSetUserRatingSeries ==
    /\ pc = "ready"
    /\ \E accountID \in AccountIDs, seriesID \in IDs, rating \in Ratings, o \in Outcomes :
        Done("SetUserRatingSeries",
             [accountID |-> accountID, itemID |-> seriesID, rating |-> rating],
             SetUserRatingSeries(client, accountID, seriesID, rating, o))

CallSetUserRatingEp ==
    /\ pc = "ready"
    /\ \E accountID \in AccountIDs, epID \in IDs, rating \in Ratings, o \in Outcomes :
        Done("SetUserRatingEp",
             [accountID |-> accountID, itemID |-> epID, rating |-> rating],
             SetUserRatingEp(client, accountID, epID, rating, o))

CallUserLang ==
    /\ pc = "ready"
    /\ \E accountID \in AccountIDs, o \in Outcomes :
        Done("UserLang", [accountID |-> accountID], UserLang(client, accountID, o))

Next ==
    \/ OverrideBaseURL
    \/ Discard
    \/ CallLanguages
    \/ CallSearchSeries
    \/ CallSeriesByID
    \/ CallSeriesByRemoteID
    \/ CallSeriesAllByID
    \/ CallActorsBySeries
    \/ CallEpisodeByID
    \/ CallEpisodeBySeries
    \/ CallEpisodeBySeriesDVD
    \/ CallEpisodeBySeriesAbsolute
    \/ CallUserFavs
    \/ CallUserFavAdd
    \/ CallUserFavRemove
    \/ CallUserRatings
    \/ CallUserRatingsSeries
    \/ CallSetUserRatingSeries
    \/ CallSetUserRatingEp
    \/ CallUserLang

Spec == Init /\ [][Next]_vars

NextDecode ==
    \/ DecodePipeList
    \/ DecodeNullInt
    \/ DecodeNullFloat64
    \/ DecodeRating
    \/ StringImgFlag
    \/ DecodeImgFlag
    \/ DecodeDateTime
    \/ DecodeDate
    \/ NextElement

SpecDecode == Init /\ [][NextDecode]_vars

(***************************************************************************)
(* SpecFull: the client of the earlier revisions (type TVDB), whose        *)
(* GetSeriesFull groups the episodes of a series by season.                *)
(***************************************************************************)
MaxEpisodes == 3

NewTVDB(apiKey) == [APIKey |-> apiKey, DefaultLang |-> "en"]

\* TVDB.baseURL and TVDB.staticAPIURL
TVDB_baseURL == [Scheme |-> "http", Host |-> "thetvdb.com"]
TVDB_staticAPIURL(t, path) ==
    [Scheme |-> TVDB_baseURL.Scheme, Host |-> TVDB_baseURL.Host,
     Path |-> "api/" \o t.APIKey \o "/" \o path, RawQuery |-> ""]

\* The Episode elements of a full series record: the i-th has the ID i and
\* any season number.
SeasonedEpisodes ==
    UNION {{[i \in 1..n |-> [ID |-> i, SeasonNumber |-> f[i]]] : f \in [1..n -> SeasonNumbers]} :
              n \in 0..MaxEpisodes}
FullBodies == [wellformed : BOOLEAN, items : ElemSeqs, episodes : SeasonedEpisodes]
FullOutcomes ==
    {[kind |-> "transport", StatusCode |-> 0,
      body |-> [wellformed |-> FALSE, items |-> <<>>, episodes |-> <<>>]]}
    \cup [kind : {"response"}, StatusCode : {StatusOK}, body : FullBodies]
    \cup [kind : {"response"}, StatusCode : StatusCodes \ {StatusOK}, body : ErrorBodies]

\* getResponse(url, v) of the earlier revisions: a function of the package.
TVDB_getResponse(u, target, o) ==
    IF o.kind = "transport"
    THEN [gets |-> <<u>>, err |-> [type |-> "transport"], v |-> target, resp |-> NoResp]
    ELSE IF o.StatusCode # StatusOK
    THEN [gets |-> <<u>>, err |-> [type |-> "status", url |-> u, code |-> o.StatusCode],
          v |-> target, resp |-> Received(o, FALSE)]
    ELSE LET d == Decode(target, o.body)
         IN  [gets |-> <<u>>, err |-> d.err, v |-> d.v, resp |-> Received(o, TRUE)]

\* A map of Go: nil, or made and holding a list for each of its keys.
NilMap == [nil |-> TRUE, m |-> <<>>]
MakeMap == [nil |-> FALSE, m |-> <<>>]
\* A decoded Series element: no element fills Seasons.
DecodedSeries(id) == [kind |-> "ptr", ID |-> id, Seasons |-> NilMap]
TooManySeries(n) == [type |-> "series count", got |-> n]

\* series.Seasons[episode.SeasonNumber] =
\*     append(series.Seasons[episode.SeasonNumber], episode)
appendEpisode(seasons, episode) ==
    [seasons EXCEPT !.m =
        [k \in DOMAIN seasons.m \cup {episode.SeasonNumber} |->
            IF k = episode.SeasonNumber
            THEN Append(IF k \in DOMAIN seasons.m THEN seasons.m[k] ELSE <<>>, episode)
            ELSE seasons.m[k]]]

\* for _, episode := range data.Episodes
RECURSIVE rangeEpisodes(_, _)
rangeEpisodes(seasons, episodes) ==
    IF episodes = <<>> THEN seasons
    ELSE rangeEpisodes(appendEpisode(seasons, Head(episodes)), Tail(episodes))

\* TVDB.GetSeriesByID
GetSeriesByID(t, id, o) ==
    LET u == TVDB_staticAPIURL(t, "series/" \o FormatInt(id) \o "/en.xml")
        gr == TVDB_getResponse(URLString(u), ZeroResponse, o)
    IN  IF gr.err # NoErr THEN Returns(gr, gr.err, <<Nil>>)
        ELSE IF Len(gr.v.items) # 1 THEN Returns(gr, TooManySeries(Len(gr.v.items)), <<Nil>>)
        ELSE Returns(gr, NoErr, <<DecodedSeries(gr.v.items[1])>>)

\* TVDB.apiURL
TVDB_apiURL(t, path, query) ==
    [Scheme |-> TVDB_baseURL.Scheme, Host |-> TVDB_baseURL.Host,
     Path |-> "api/" \o path, RawQuery |-> Encode(query)]

\* A GetSeriesByRemoteID that, as the later revisions do, decodes into one
\* Series field and returns it without counting the elements.
GetSeriesByRemoteIDUncounted(t, service, id, o) ==
    LET u == TVDB_apiURL(t, "GetSeriesByRemoteID.php", Set(EmptyValues, service, id))
        gr == TVDB_getResponse(URLString(u), ZeroResponse, o)
    IN  IF gr.err # NoErr THEN Returns(gr, gr.err, <<Nil>>)
        ELSE Returns(gr, NoErr,
                     <<DecodedSeries(IF gr.v.items = <<>> THEN 0
                                     ELSE gr.v.items[Len(gr.v.items)])>>)

\* TVDB.GetSeriesByRemoteID
GetSeriesByRemoteID(t, service, id, o) ==
    LET u == TVDB_apiURL(t, "GetSeriesByRemoteID.php", Set(EmptyValues, service, id))
        gr == TVDB_getResponse(URLString(u), ZeroResponse, o)
    IN  IF gr.err # NoErr THEN Returns(gr, gr.err, <<Nil>>)
        ELSE IF Len(gr.v.items) # 1 THEN Returns(gr, TooManySeries(Len(gr.v.items)), <<Nil>>)
        ELSE Returns(gr, NoErr, <<DecodedSeries(gr.v.items[1])>>)

\* A GetSeriesFull that makes the map when the first episode needs it.
GetSeriesFullLazyMap(t, seriesID, o) ==
    LET u == TVDB_staticAPIURL(t, "series/" \o FormatInt(seriesID) \o "/all/en.xml")
        gr == TVDB_getResponse(URLString(u), ZeroResponse, o)
    IN  IF gr.err # NoErr THEN Returns(gr, gr.err, <<Nil>>)
        ELSE IF Len(gr.v.items) # 1 THEN Returns(gr, TooManySeries(Len(gr.v.items)), <<Nil>>)
        ELSE LET series == DecodedSeries(gr.v.items[1])
                 seasons == IF gr.v.episodes = <<>> THEN series.Seasons ELSE MakeMap
             IN  Returns(gr, NoErr,
                         <<[series EXCEPT !.Seasons = rangeEpisodes(seasons, gr.v.episodes)]>>)

\* TVDB.GetSeriesFull
GetSeriesFull(t, seriesID, o) ==
    LET u == TVDB_staticAPIURL(t, "series/" \o FormatInt(seriesID) \o "/all/en.xml")
        gr == TVDB_getResponse(URLString(u), ZeroResponse, o)
    IN  IF gr.err # NoErr THEN Returns(gr, gr.err, <<Nil>>)
        ELSE IF Len(gr.v.items) # 1 THEN Returns(gr, TooManySeries(Len(gr.v.items)), <<Nil>>)
        ELSE LET series == DecodedSeries(gr.v.items[1])
                 seasons == IF series.Seasons.nil THEN MakeMap ELSE series.Seasons
             IN  Returns(gr, NoErr,
                         <<[series EXCEPT !.Seasons = rangeEpisodes(seasons, gr.v.episodes)]>>)

InitFull ==
    /\ decField = "none"
    /\ decIn = <<>>
    /\ decOut = <<>>
    /\ client \in {NewTVDB(k) : k \in APIKeys}
    /\ pc = "ready"
    /\ call = NoCall
    /\ reqs = <<>>
    /\ resp = NoResp
    /\ v = NilTarget
    /\ ret = NoRet

CallGetSeriesByID ==
    /\ pc = "ready"
    /\ \E id \in IDs, o \in FullOutcomes :
        Done("GetSeriesByID", [id |-> id], GetSeriesByID(client, id, o))

CallGetSeriesFull ==
    /\ pc = "ready"
    /\ \E seriesID \in IDs, o \in FullOutcomes :
        Done("GetSeriesFull", [seriesID |-> seriesID], GetSeriesFull(client, seriesID, o))

CallGetSeriesByRemoteID ==
    /\ pc = "ready"
    /\ \E service \in RemoteServices, id \in RemoteIDs, o \in FullOutcomes :
        Done("GetSeriesByRemoteID", [service |-> service, id |-> id],
             GetSeriesByRemoteID(client, service, id, o))

NextFull ==
    \/ CallGetSeriesByID
    \/ CallGetSeriesByRemoteID
    \/ CallGetSeriesFull
    \/ Discard

SpecFull == InitFull /\ [][NextFull]_vars

(***************************************************************************)
(* SpecConc: goroutines calling methods of one Client, a step at a time.   *)
(* In this specification pc, call and reqs hold one entry per goroutine;   *)
(* call[p] is the frame of the call: the method and its arguments, the     *)
(* path and the query it computed, and its URL pointer u.  A frame also    *)
(* remembers the client as it was when the call began (c0).                *)
(***************************************************************************)
MaxProcs == 2
Procs == 1..MaxProcs

\* The calls a goroutine may make: what the method computes from its
\* arguments before it asks for its URL.
Requests(c) ==
    {[method |-> "SeriesByID", args |-> [id |-> id, lang |-> lang], static |-> TRUE,
      path |-> "series/" \o FormatInt(id) \o "/" \o (IF lang = "" THEN "en" ELSE lang) \o ".xml",
      query |-> EmptyValues] : id \in IDs, lang \in {"", "de"}}
    \cup
    {[method |-> "SearchSeries", args |-> [term |-> term, lang |-> "en"], static |-> FALSE,
      path |-> "GetSeries.php",
      query |-> Set(Set(EmptyValues, "seriesname", term), "language", "en")] : term \in Terms}
    \cup
    {[method |-> "UserRatings", args |-> [accountID |-> a], static |-> FALSE,
      path |-> "GetRatingsForUser.php",
      query |-> Set(Set(EmptyValues, "apikey", c.APIKey), "accountid", a)] : a \in AccountIDs}

NoURL == [shared |-> FALSE, val |-> [Scheme |-> "", Host |-> "", Path |-> "", RawQuery |-> ""]]
NoFrame == [method |-> "none"]

\* u := c.BaseURL: u points at the URL of the client.
aliasBaseURL(c) == [shared |-> TRUE, val |-> c.BaseURL]
\* u := *c.BaseURL: u is a URL of its own, a copy.
copyBaseURL(c) == [shared |-> FALSE, val |-> c.BaseURL]

\* The URL u stands for, and the client and u after a write to a field of u.
Deref(c, u) == IF u.shared THEN c.BaseURL ELSE u.val
WriteClient(c, u, field, value) ==
    IF u.shared THEN [c EXCEPT !.BaseURL[field] = value] ELSE c
WriteURL(u, field, value) ==
    IF u.shared THEN u ELSE [u EXCEPT !.val[field] = value]

InitConc ==
    /\ decField = "none"
    /\ decIn = <<>>
    /\ decOut = <<>>
    /\ client \in {NewClient(k) : k \in APIKeys}
    /\ pc = [p \in Procs |-> "idle"]
    /\ call = [p \in Procs |-> NoFrame]
    /\ reqs = [p \in Procs |-> <<>>]
    /\ resp = NoResp
    /\ v = NilTarget
    /\ ret = NoRet

\* BaseURL is set while no call is running.
ConfigureBaseURL ==
    /\ \A p \in Procs : pc[p] = "idle"
    /\ \E b \in BaseURLs : client' = [client EXCEPT !.BaseURL = b]
    /\ UNCHANGED <<pc, call, reqs, resp, v, ret, decVars>>

\* A goroutine calls a method, which computes its path and query.
Start(p) ==
    /\ pc[p] = "idle"
    /\ \E r \in Requests(client) :
        call' = [call EXCEPT ![p] = [method |-> r.method, args |-> r.args, static |-> r.static,
                                     path |-> r.path, query |-> r.query, u |-> NoURL,
                                     c0 |-> client]]
    /\ pc' = [pc EXCEPT ![p] = "called"]
    /\ UNCHANGED <<client, reqs, resp, v, ret, decVars>>

\* apiURL and staticAPIURL: u := *c.BaseURL
CopyBaseURL(p) ==
    /\ pc[p] = "called"
    /\ call' = [call EXCEPT ![p].u = copyBaseURL(client)]
    /\ pc' = [pc EXCEPT ![p] = "copied"]
    /\ UNCHANGED <<client, reqs, resp, v, ret, decVars>>

\* u.Path = fmt.Sprintf(...), with c.APIKey for the static interface
SetPath(p) ==
    /\ pc[p] = "copied"
    /\ LET path == IF call[p].static THEN "api/" \o client.APIKey \o "/" \o call[p].path
                   ELSE "api/" \o call[p].path
       IN  /\ client' = WriteClient(client, call[p].u, "Path", path)
           /\ call' = [call EXCEPT ![p].u = WriteURL(call[p].u, "Path", path)]
    /\ pc' = [pc EXCEPT ![p] = IF call[p].static THEN "built" ELSE "path"]
    /\ UNCHANGED <<reqs, resp, v, ret, decVars>>

\* apiURL: u.RawQuery = query.Encode()
SetRawQuery(p) ==
    /\ pc[p] = "path"
    /\ client' = WriteClient(client, call[p].u, "RawQuery", Encode(call[p].query))
    /\ call' = [call EXCEPT ![p].u = WriteURL(call[p].u, "RawQuery", Encode(call[p].query))]
    /\ pc' = [pc EXCEPT ![p] = "built"]
    /\ UNCHANGED <<reqs, resp, v, ret, decVars>>

\* getResponse: c.HTTPClient.Get(u.String())
Get(p) ==
    /\ pc[p] = "built"
    /\ reqs' = [reqs EXCEPT ![p] = Append(reqs[p], URLString(Deref(client, call[p].u)))]
    /\ pc' = [pc EXCEPT ![p] = "requested"]
    /\ UNCHANGED <<client, call, resp, v, ret, decVars>>

\* The response is dealt with in the goroutine's own variables; the method
\* returns.
Return(p) ==
    /\ pc[p] = "requested"
    /\ pc' = [pc EXCEPT ![p] = "idle"]
    /\ call' = [call EXCEPT ![p] = NoFrame]
    /\ reqs' = [reqs EXCEPT ![p] = <<>>]
    /\ UNCHANGED <<client, resp, v, ret, decVars>>

NextConc ==
    \/ ConfigureBaseURL
    \/ \E p \in Procs : Start(p)
    \/ \E p \in Procs : CopyBaseURL(p)
    \/ \E p \in Procs : SetPath(p)
    \/ \E p \in Procs : SetRawQuery(p)
    \/ \E p \in Procs : Get(p)
    \/ \E p \in Procs : Return(p)

SpecConc == InitConc /\ [][NextConc]_vars

(***************************************************************************)
(* SpecSearch: SearchSeries of the earlier revisions, which reads the      *)
(* series ids off the links of the site's HTML search page.                *)
(***************************************************************************)
MaxMatches == 3
MaxResults == 2

\* strconv.ParseUint(s, 10, 64) and strconv.ParseInt(s, 10, 64) on a run of
\* digits: more than twenty digits are out of range.
RangeError(s) == [type |-> "NumError", Num |-> s, Err |-> "range"]
ParseUint(s) ==
    IF Len(s) > 20 THEN [val |-> 0, err |-> RangeError(s)] ELSE [val |-> DigitsVal(s), err |-> NoErr]
ParseInt64(s) == IF Len(s) > 20 THEN [val |-> 0, err |-> RangeError(s)] ELSE ParseInt(s)

\* What the server may answer when the series of an id is fetched: no answer,
\* a document with a syntax error, the series, or a document without one.
FetchOutcomes(id) ==
    {[kind |-> "transport", StatusCode |-> 0,
      body |-> [wellformed |-> FALSE, items |-> <<>>, episodes |-> <<>>]],
     [kind |-> "response", StatusCode |-> StatusOK,
      body |-> [wellformed |-> FALSE, items |-> <<>>, episodes |-> <<>>]],
     [kind |-> "response", StatusCode |-> StatusOK,
      body |-> [wellformed |-> TRUE, items |-> <<id>>, episodes |-> <<>>]],
     [kind |-> "response", StatusCode |-> StatusOK,
      body |-> [wellformed |-> TRUE, items |-> <<>>, episodes |-> <<>>]]}

\* The links reSearchSeries matches in a page, each with the digits of its id
\* and with the answer a fetch of that id gets.
LongID == [i \in 1..21 |-> "9"]
PageMatches ==
    {[text |-> <<Digit[id + 1]>>, o |-> o] : id \in {1, 2}, o \in FetchOutcomes(1) \cup FetchOutcomes(2)}
    \cup {[text |-> LongID, o |-> CHOOSE o \in FetchOutcomes(1) : o.kind = "transport"]}
MatchSeqs ==
    {q \in SeqsUpTo(PageMatches, MaxMatches) :
        \A i \in 1..Len(q) :
            q[i].text # LongID => q[i].o \in FetchOutcomes(DigitsVal(q[i].text))}
Pages ==
    {[kind |-> "transport", readable |-> FALSE, matches |-> <<>>]}
    \cup {[kind |-> "response", readable |-> FALSE, matches |-> <<>>]}
    \cup [kind : {"response"}, readable : {TRUE}, matches : MatchSeqs]
PageResponse(page) ==
    [received |-> page.kind = "response", StatusCode |-> IF page.kind = "response" THEN StatusOK ELSE 0,
     closed |-> page.kind = "response", body |-> [readable |-> page.readable, matches |-> page.matches]]

\* The URL of the search page.
searchURL(name) ==
    [Scheme |-> TVDB_baseURL.Scheme, Host |-> TVDB_baseURL.Host, Path |-> "",
     RawQuery |-> Encode(Set(Set(Set(Set(EmptyValues, "string", name), "searchseriesid", ""),
                                 "tab", "listseries"), "function", "Search"))]

ZeroSeries == [ID |-> 0, Seasons |-> NilMap]
\* *series
SeriesValue(ptr) == [ID |-> ptr.ID, Seasons |-> ptr.Seasons]
\* make([]T, n): n zero values.
MakeSlice(zero, n) == [i \in 1..n |-> zero]
Slice(q) == [kind |-> "list", items |-> q]
Searched(gets, page, err, vals) ==
    Returns([gets |-> gets, err |-> err, v |-> NilTarget, resp |-> PageResponse(page)], err, vals)

\* A loop that gives up at the first fetch that fails, whatever the error.
RECURSIVE rangeResultsStopOnAnyError(_, _, _, _, _)
rangeResultsStopOnAnyError(t, results, seriesList, maxResults, gets) ==
    IF results = <<>> THEN [list |-> seriesList, err |-> NoErr, gets |-> gets]
    ELSE LET id == ParseUint(Head(results).text)
         IN  IF id.err # NoErr
             THEN rangeResultsStopOnAnyError(t, Tail(results), seriesList, maxResults, gets)
             ELSE LET f == GetSeriesByID(t, id.val, Head(results).o)
                      g == gets \o f.gr.gets
                      l == Append(seriesList, SeriesValue(f.vals[1]))
                  IN  IF f.err # NoErr THEN [list |-> seriesList, err |-> f.err, gets |-> g]
                      ELSE IF Len(l) = maxResults THEN [list |-> l, err |-> NoErr, gets |-> g]
                      ELSE rangeResultsStopOnAnyError(t, Tail(results), l, maxResults, g)

\* TVDB.SearchSeries: for _, result := range results
RECURSIVE rangeResults(_, _, _, _, _)
rangeResults(t, results, seriesList, maxResults, gets) ==
    IF results = <<>> THEN [list |-> seriesList, err |-> NoErr, gets |-> gets]
    ELSE LET id == ParseUint(Head(results).text)
         IN  IF id.err # NoErr THEN rangeResults(t, Tail(results), seriesList, maxResults, gets)
             ELSE LET f == GetSeriesByID(t, id.val, Head(results).o)
                      g == gets \o f.gr.gets
                      l == Append(seriesList, SeriesValue(f.vals[1]))
                  IN  IF f.err # NoErr
                      THEN (IF f.err = XMLErr
                            THEN rangeResults(t, Tail(results), seriesList, maxResults, g)
                            ELSE [list |-> seriesList, err |-> f.err, gets |-> g])
                      ELSE IF Len(l) = maxResults THEN [list |-> l, err |-> NoErr, gets |-> g]
                      ELSE rangeResults(t, Tail(results), l, maxResults, g)

\* TVDB.SearchSeries(name, maxResults), the page being what the site answers.
\* make panics when it is asked for a negative length.
TVDB_SearchSeries(t, name, maxResults, page) ==
    LET u == URLString(searchURL(name))
        results == page.matches
        max == IF Len(results) < maxResults THEN Len(results) ELSE maxResults
    IN  IF page.kind = "transport" THEN Searched(<<u>>, page, [type |-> "transport"], <<Nil>>)
        ELSE IF ~page.readable THEN Searched(<<u>>, page, [type |-> "read"], <<Nil>>)
        ELSE IF max < 0
             THEN Panics([gets |-> <<u>>, err |-> NoErr, v |-> NilTarget,
                          resp |-> PageResponse(page)])
        ELSE LET r == rangeResults(t, results, MakeSlice(ZeroSeries, max), max, <<u>>)
             IN  Searched(r.gets, page, r.err, <<Slice(r.list)>>)

\* API.SearchSeries: for _, result := range results
RECURSIVE rangeIDs(_, _)
rangeIDs(results, seriesList) ==
    IF results = <<>> THEN seriesList
    ELSE LET seriesID == ParseInt64(Head(results).text)
         IN  IF seriesID.err # NoErr THEN rangeIDs(Tail(results), seriesList)
             ELSE rangeIDs(Tail(results), Append(seriesList, seriesID.val))

\* API.SearchSeries(name), of the revision that returns the ids alone.
API_SearchSeries(name, page) ==
    LET u == URLString(searchURL(name))
    IN  IF page.kind = "transport" THEN Searched(<<u>>, page, [type |-> "transport"], <<Nil>>)
        ELSE IF ~page.readable THEN Searched(<<u>>, page, [type |-> "read"], <<Nil>>)
        ELSE Searched(<<u>>, page, NoErr,
                      <<Slice(rangeIDs(page.matches, MakeSlice(0, Len(page.matches))))>>)

SearchNames == {"The Simpsons"}
MaxResultsArgs == (-1)..MaxResults

CallSearchSeriesTVDB ==
    /\ pc = "ready"
    /\ \E name \in SearchNames, maxResults \in MaxResultsArgs, page \in Pages :
        Done("TVDB.SearchSeries", [name |-> name, maxResults |-> maxResults],
             TVDB_SearchSeries(client, name, maxResults, page))

CallSearchSeriesAPI ==
    /\ pc = "ready"
    /\ \E name \in SearchNames, page \in Pages :
        Done("API.SearchSeries", [name |-> name], API_SearchSeries(name, page))

NextSearch ==
    \/ CallSearchSeriesTVDB
    \/ CallSearchSeriesAPI
    \/ Discard

SpecSearch == InitFull /\ [][NextSearch]_vars

(***************************************************************************)
(* Properties                                                              *)
(***************************************************************************)
IsSetUserRating ==
    pc = "returned" /\ call.method \in {"SetUserRatingSeries", "SetUserRatingEp"}

ItemType == IF call.method = "SetUserRatingSeries" THEN "series" ELSE "episode"

\* C1: a SetUserRatingSeries or SetUserRatingEp call with a rating below 0 or
\* above 10 returns the validation error and has passed no URL to
\* HTTPClient.Get and received no response; the ratings 0 and 10 are not
\* refused by the validation.
C1_RatingValidatedBeforeRequest ==
    IsSetUserRating =>
        /\ (call.args.rating < 0 \/ call.args.rating > 10) =>
               /\ ret.err.type = "validation"
               /\ reqs = <<>>
               /\ ~resp.received
        /\ call.args.rating \in {0, 10} =>
               /\ ret.err.type # "validation"
               /\ Len(reqs) = 1

C1_Witness ==
    /\ IsSetUserRating
    /\ call.args.rating = 11
    /\ ret.err.type = "validation"
    /\ reqs = <<>>

\* C2: a SetUserRatingSeries or SetUserRatingEp call with a rating r in 0..10
\* issues exactly one GET, to api/User_Rating.php on the client's base URL,
\* and its query holds accountid, itemid, itemtype ("series" or "episode")
\* and rating=r, and nothing else.
C2_OneRatingRequest ==
    (IsSetUserRating /\ call.args.rating \in 0..10) =>
        reqs = << client.BaseURL.Scheme \o "://" \o client.BaseURL.Host
                  \o "/api/User_Rating.php?accountid=" \o call.args.accountID
                  \o "&itemid=" \o ToString(call.args.itemID)
                  \o "&itemtype=" \o ItemType
                  \o "&rating=" \o ToString(call.args.rating) >>

C2_Witness ==
    /\ IsSetUserRating
    /\ call.method = "SetUserRatingEp"
    /\ call.args.rating = 7
    /\ client.BaseURL = DefaultBaseURL
    /\ reqs = <<"http://thetvdb.com/api/User_Rating.php?accountid=34A8615ABE815874&itemid=2&itemtype=episode&rating=7">>

\* The elements of a pipe list joined by "|".
RECURSIVE Join(_)
Join(l) ==
    IF l = <<>> THEN <<>>
    ELSE IF Len(l) = 1 THEN l[1]
    ELSE l[1] \o <<"|">> \o Join(Tail(l))

\* A text without the "|" characters at its two ends.
Trimmed(t) ==
    LET I == {i \in 1..Len(t) : t[i] # "|"}
    IN  IF I = {} THEN <<>>
        ELSE SubSeq(t, CHOOSE i \in I : \A j \in I : i <= j, CHOOSE i \in I : \A j \in I : j <= i)

\* C3: the pipe-list decoder, given non-empty text, yields a list whose
\* elements hold no "|" and, joined by "|", give the text without its leading
\* and trailing "|"; given empty text it yields the empty list.
C3_PipeListRoundTrip ==
    (decField = "pipeList" /\ decIn.ok) =>
        /\ decOut.err = NoErr
        /\ decIn.text # <<>> =>
               /\ Join(decOut.recv) = Trimmed(decIn.text)
               /\ \A i \in 1..Len(decOut.recv) :
                      \A j \in 1..Len(decOut.recv[i]) : decOut.recv[i][j] # "|"
        /\ decIn.text = <<>> => decOut.recv = <<>>

C3_Witness ==
    /\ decField = "pipeList"
    /\ decIn.ok
    /\ decIn.text = <<"a", "|", "b">>
    /\ decOut.recv = << <<"a">>, <<"b">> >>

\* C4: nullInt and nullFloat64, decoding into a zero receiver: empty text
\* gives Valid = FALSE, Value = 0 and no error; text that strconv parses
\* gives Valid = TRUE and the parsed Value (the text "0" gives a valid 0);
\* any other text gives an error and Valid = FALSE.
C4_NullableNumeric ==
    (decField \in {"nullInt", "nullFloat64"} /\ decIn.ok) =>
        LET zero == IF decField = "nullInt" THEN 0 ELSE [num |-> 0, den |-> 1]
            parsed == IF decField = "nullInt" THEN ParseInt(decIn.text)
                      ELSE ParseFloat(decIn.text)
        IN  /\ decIn.text = <<>> =>
                   decOut = [recv |-> [Value |-> zero, Valid |-> FALSE], err |-> NoErr]
            /\ (decIn.text # <<>> /\ parsed.err = NoErr) =>
                   decOut = [recv |-> [Value |-> parsed.val, Valid |-> TRUE], err |-> NoErr]
            /\ (decIn.text # <<>> /\ parsed.err # NoErr) =>
                   /\ decOut.err # NoErr
                   /\ ~decOut.recv.Valid
            /\ decIn.text = <<"0">> => decOut.recv = [Value |-> zero, Valid |-> TRUE]

C4_Witness ==
    /\ decField = "nullInt"
    /\ decIn.ok
    /\ decIn.text = <<"0">>
    /\ decOut.recv = [Value |-> 0, Valid |-> TRUE]

IsResponse == pc = "returned" /\ resp.received

\* C5: when the response status is not 200 the call fails with an error that
\* holds the requested URL and the status code, and the target of
\* getResponse is as it was before the call: nothing was decoded into it.
C5_Non200Fails ==
    (IsResponse /\ resp.StatusCode # 200) =>
        /\ ret.err.type = "status"
        /\ ret.err.url = reqs[1]
        /\ ret.err.code = resp.StatusCode
        /\ v \in {NilTarget, ZeroResponse}

C5_Witness ==
    /\ IsResponse
    /\ resp.StatusCode = 404
    /\ resp.body.items # <<>>
    /\ ret.err.type = "status"
    /\ v = ZeroResponse

\* C6: a method that returns an error returns nil for each of its other
\* results, whatever was decoded before the error.
C6_NoPartialResult ==
    (pc = "returned" /\ ret.err # NoErr) =>
        /\ ~ret.panic
        /\ \A i \in 1..Len(ret.vals) : ret.vals[i] = Nil

C6_Witness ==
    /\ pc = "returned"
    /\ call.method = "SeriesAllByID"
    /\ ret.err = XMLErr
    /\ v.items # <<>>
    /\ v.episodes # <<>>
    /\ ret.vals = <<Nil, Nil>>

\* C7: a call issues at most one GET, and exactly one when it ends with a
\* transport error, a non-200 status or a decode error.
C7_NoRetry ==
    /\ Len(reqs) <= 1
    /\ (pc = "returned" /\ ret.err.type \in {"transport", "status", "xml", "nonpointer"}) =>
           Len(reqs) = 1

C7_Witness ==
    /\ pc = "returned"
    /\ call.method = "SearchSeries"
    /\ ret.err.type = "transport"
    /\ Len(reqs) = 1

IsRating == decField = "Rating" /\ decIn.ok

\* C8: a Rating element with only a non-zero seriesid decodes to that ID; one
\* with only an id decodes to that ID; in both cases UserRating and
\* CommunityRating are those of the element.
C8_RatingSingleID ==
    IsRating =>
        /\ (decIn.id = <<>> /\ decIn.seriesid # <<>> /\ decIn.seriesid # <<0>>) =>
               decOut.recv.ID = decIn.seriesid[1]
        /\ (decIn.seriesid = <<>> /\ decIn.id # <<>>) => decOut.recv.ID = decIn.id[1]
        /\ ((decIn.id = <<>>) # (decIn.seriesid = <<>>)) =>
               /\ decOut.err = NoErr
               /\ decOut.recv.UserRating = decIn.UserRating
               /\ decOut.recv.CommunityRating = decIn.CommunityRating

C8_Witness ==
    /\ IsRating
    /\ decIn.id = <<>>
    /\ decIn.seriesid = <<2>>
    /\ decIn.UserRating = 1
    /\ decOut.recv.ID = 2
    /\ decOut.recv.UserRating = 1

BothIDs ==
    /\ IsRating
    /\ decIn.id \notin {<<>>, <<0>>}
    /\ decIn.seriesid \notin {<<>>, <<0>>}

\* C9, as claimed: a Rating element with a non-zero id and a non-zero seriesid
\* decodes to the ID of its id element.
C9_EpisodeFieldPreferred ==
    BothIDs => decOut.recv.ID = decIn.id[1]

\* C9, as amended: a Rating element with a non-zero id and a non-zero seriesid
\* decodes to the ID of its seriesid element.
C9_SeriesFieldPreferred ==
    BothIDs => decOut.recv.ID = decIn.seriesid[1]

C9_Witness ==
    /\ BothIDs
    /\ decIn.id = <<1>>
    /\ decIn.seriesid = <<2>>
    /\ decOut.recv.ID = 2

\* C10: ImgFlag.String gives the values 0..6 their display names and any
\* other value its decimal text; 99 gives "99".
C10_ImgFlagString ==
    decField = "ImgFlag.String" =>
        /\ decOut = CASE decIn = 0 -> "None"
                       [] decIn = 1 -> "4:3"
                       [] decIn = 2 -> "16x9"
                       [] decIn = 3 -> "Bad Aspect Ratio"
                       [] decIn = 4 -> "Image Too Small"
                       [] decIn = 5 -> "Black Bars"
                       [] decIn = 6 -> "Improper Action Shot"
                       [] OTHER -> ToString(decIn)
        /\ decIn = 99 => decOut = "99"

C10_Witness ==
    /\ decField = "ImgFlag.String"
    /\ decIn = 99
    /\ decOut = "99"

\* C11: ImgFlag.UnmarshalXML, decoding into a zero receiver: empty text gives
\* the flag 0 (ImgFlagNone) and no error; text that strconv parses as the
\* integer n gives the flag n and no error (the text "1" gives the flag 1,
\* whose String is "4:3"); any other text gives an error.
C11_ImgFlagDecode ==
    (decField = "ImgFlag" /\ decIn.ok) =>
        LET parsed == ParseInt(decIn.text)
        IN  /\ decIn.text = <<>> => decOut = [recv |-> 0, err |-> NoErr]
            /\ (decIn.text # <<>> /\ parsed.err = NoErr) =>
                   decOut = [recv |-> parsed.val, err |-> NoErr]
            /\ (decIn.text # <<>> /\ parsed.err # NoErr) => decOut.err # NoErr
            /\ decIn.text = <<"1">> =>
                   /\ decOut.recv = 1
                   /\ ImgFlagString(decOut.recv) = "4:3"

C11_Witness ==
    /\ decField = "ImgFlag"
    /\ decIn.ok
    /\ decIn.text = <<"1">>
    /\ decOut = [recv |-> 1, err |-> NoErr]

\* The calendar date a text 'YYYY-MM-DD' writes, and the clock a text
\* 'HH:MM:SS' (or 'H:MM:SS' when hourLen is 1) writes.
IsDayText(s) ==
    /\ Len(s) = 10
    /\ \A i \in {1, 2, 3, 4, 6, 7, 9, 10} : s[i] \in DigitChars
    /\ s[5] = "-" /\ s[8] = "-"
    /\ DigitsVal(SubSeq(s, 6, 7)) \in 1..12
    /\ DigitsVal(SubSeq(s, 9, 10)) \in
           1..daysIn(DigitsVal(SubSeq(s, 6, 7)), DigitsVal(SubSeq(s, 1, 4)))
IsClockText(s, hourLen) ==
    /\ Len(s) = hourLen + 6
    /\ \A i \in (1..hourLen) \cup {hourLen + 2, hourLen + 3, hourLen + 5, hourLen + 6} :
           s[i] \in DigitChars
    /\ s[hourLen + 1] = ":" /\ s[hourLen + 4] = ":"
    /\ DigitsVal(SubSeq(s, 1, hourLen)) \in 0..23
    /\ DigitsVal(SubSeq(s, hourLen + 2, hourLen + 3)) \in 0..59
    /\ DigitsVal(SubSeq(s, hourLen + 5, hourLen + 6)) \in 0..59
IsFractionText(s) ==
    s = <<>> \/ (Len(s) \in 2..10 /\ s[1] = "." /\ \A i \in 2..Len(s) : s[i] \in DigitChars)
InstantOf(day, clock, hourLen, fraction) ==
    [year |-> DigitsVal(SubSeq(day, 1, 4)),
     month |-> DigitsVal(SubSeq(day, 6, 7)),
     day |-> DigitsVal(SubSeq(day, 9, 10)),
     hour |-> IF clock = <<>> THEN 0 ELSE DigitsVal(SubSeq(clock, 1, hourLen)),
     min |-> IF clock = <<>> THEN 0 ELSE DigitsVal(SubSeq(clock, hourLen + 2, hourLen + 3)),
     sec |-> IF clock = <<>> THEN 0 ELSE DigitsVal(SubSeq(clock, hourLen + 5, hourLen + 6)),
     nsec |-> IF fraction = <<>> THEN 0
              ELSE DigitsVal(Tail(fraction)) * Pow10(10 - Len(fraction))]

\* The ways to read a text as a day, a run of spaces, a clock with an hour of
\* hourLen digits and a fractional second.
Readings(s, spaces, hourLens, fractions) ==
    {r \in [sp : spaces, hourLen : hourLens, fr : fractions] :
        /\ Len(s) = 10 + r.sp + r.hourLen + 6 + r.fr
        /\ IsDayText(SubSeq(s, 1, 10))
        /\ \A i \in 11..(10 + r.sp) : s[i] = " "
        /\ IsClockText(SubSeq(s, 11 + r.sp, 16 + r.sp + r.hourLen), r.hourLen)
        /\ IsFractionText(Rest(s, 16 + r.sp + r.hourLen))}
ReadingInstant(s, r) ==
    InstantOf(SubSeq(s, 1, 10), SubSeq(s, 11 + r.sp, 16 + r.sp + r.hourLen), r.hourLen,
              Rest(s, 16 + r.sp + r.hourLen))
MaxSpaces == 3
MaxFraction == 3

\* C12 as stated: empty text gives NullDateTime and no error, a text
\* 'YYYY-MM-DD HH:MM:SS' gives its instant, and every other non-empty text is
\* an error.
C12_OnlyExactForm ==
    (decField = "dateTime" /\ decIn.ok) =>
        LET rs == Readings(decIn.text, {1}, {2}, {0})
        IN  /\ decIn.text = <<>> => decOut = [recv |-> NullDateTime, err |-> NoErr]
            /\ \A r \in rs : decOut = [recv |-> ReadingInstant(decIn.text, r), err |-> NoErr]
            /\ (decIn.text # <<>> /\ rs = {}) => decOut.err # NoErr

\* C12: dateTime.UnmarshalXML: empty text gives exactly NullDateTime (the day
\* before January 1 of the year 0) and no error; a text made of 'YYYY-MM-DD',
\* one or more spaces, a clock 'HH:MM:SS' whose hour may have one digit, and
\* optionally a fractional second, gives that instant and no error; every
\* other non-empty text gives an error.
C12_DateTimeDecode ==
    (decField = "dateTime" /\ decIn.ok) =>
        LET rs == Readings(decIn.text, 1..MaxSpaces, {1, 2}, {0} \cup (2..MaxFraction))
        IN  /\ decIn.text = <<>> =>
                   /\ decOut = [recv |-> NullDateTime, err |-> NoErr]
                   /\ decOut.recv = [year |-> -1, month |-> 12, day |-> 31, hour |-> 0,
                                     min |-> 0, sec |-> 0, nsec |-> 0]
            /\ \A r \in rs : decOut = [recv |-> ReadingInstant(decIn.text, r), err |-> NoErr]
            /\ (decIn.text # <<>> /\ rs = {}) => decOut.err # NoErr
C12_Witness ==
    /\ decField = "dateTime"
    /\ decIn.ok
    /\ decIn.text = <<"2", "0", "1", "1", "-", "0", "5", "-", "3", "1", " ", "2", ":", "3", "8",
                      ":", "0", "5", ".", "5">>
    /\ decOut = [recv |-> [year |-> 2011, month |-> 5, day |-> 31, hour |-> 2, min |-> 38,
                           sec |-> 5, nsec |-> 500000000],
                 err |-> NoErr]

\* C13: date.UnmarshalXML, decoding into a zero receiver: empty text gives no
\* error and leaves the zero date, which is not the NullDateTime that
\* dateTime.UnmarshalXML gives for the same element; a text 'YYYY-MM-DD' gives
\* that date and no error; every other non-empty text gives an error.
C13_DateDecode ==
    (decField = "date" /\ decIn.ok) =>
        /\ decIn.text = <<>> =>
               /\ decOut = [recv |-> ZeroDate, err |-> NoErr]
               /\ decOut.recv # NullDateTime
               /\ decOut.recv # dateTimeUnmarshalXML(ZeroDateTime, decIn).recv
        /\ IsDayText(decIn.text) =>
               decOut = [recv |-> InstantOf(decIn.text, <<>>, 0, <<>>), err |-> NoErr]
        /\ (decIn.text # <<>> /\ ~IsDayText(decIn.text)) => decOut.err # NoErr
C13_Witness ==
    /\ decField = "date"
    /\ decIn.ok
    /\ decIn.text = <<>>
    /\ decOut = [recv |-> [year |-> 1, month |-> 1, day |-> 1, hour |-> 0, min |-> 0,
                           sec |-> 0, nsec |-> 0],
                 err |-> NoErr]

\* The URL prefix of the client as it is configured now, the calls of the
\* static interface, and what each call is to name after the prefix.
APIPrefix == client.BaseURL.Scheme \o "://" \o client.BaseURL.Host \o "/api/"
StaticCalls ==
    {"Languages", "SeriesByID", "SeriesAllByID", "ActorsBySeries", "EpisodeByID",
     "EpisodeBySeries", "EpisodeBySeriesDVD", "EpisodeBySeriesAbsolute"}
Escaped(s) ==
    IF s = "The Simpsons" THEN "The+Simpsons" ELSE IF s = "a&b=c" THEN "a%26b%3Dc" ELSE s
ResourcePath ==
    LET a == call.args
    IN  CASE call.method = "Languages" -> "languages.xml"
          [] call.method = "SeriesByID" ->
                 "series/" \o ToString(a.id) \o "/" \o (IF a.lang = "" THEN "en" ELSE a.lang)
                 \o ".xml"
          [] call.method = "SeriesAllByID" ->
                 "series/" \o ToString(a.id) \o "/all/" \o a.lang \o ".xml"
          [] call.method = "ActorsBySeries" -> "series/" \o ToString(a.id) \o "/actors.xml"
          [] call.method = "EpisodeByID" ->
                 "episodes/" \o ToString(a.id) \o "/" \o a.lang \o ".xml"
          [] call.method = "EpisodeBySeries" ->
                 "series/" \o ToString(a.id) \o "/default/" \o ToString(a.season) \o "/"
                 \o ToString(a.episode) \o "/" \o a.lang \o ".xml"
          [] call.method = "EpisodeBySeriesDVD" ->
                 "series/" \o ToString(a.id) \o "/dvd/" \o ToString(a.season) \o "/"
                 \o ToString(a.episode) \o "/" \o a.lang \o ".xml"
          [] call.method = "EpisodeBySeriesAbsolute" ->
                 "series/" \o ToString(a.id) \o "/absolute/" \o ToString(a.episode) \o "/"
                 \o a.lang \o ".xml"
ScriptAndQuery ==
    LET a == call.args
    IN  CASE call.method = "SearchSeries" ->
                 "GetSeries.php?" \o (IF a.lang # "" THEN "language=" \o a.lang \o "&" ELSE "")
                 \o "seriesname=" \o Escaped(a.term)
          [] call.method = "SeriesByRemoteID" ->
                 "GetSeriesByRemoteID.php?"
                 \o (IF a.lang = "" THEN a.service \o "=" \o a.id
                     ELSE IF a.service = "imdbid"
                          THEN "imdbid=" \o a.id \o "&language=" \o a.lang
                     ELSE "language=" \o a.lang \o "&zap2it=" \o a.id)
          [] call.method = "UserFavs" -> "User_Favorites.php?accountid=" \o a.accountID
          [] call.method = "UserFavAdd" ->
                 "User_Favorites.php?accountid=" \o a.accountID \o "&seriesid="
                 \o ToString(a.seriesID) \o "&type=add"
          [] call.method = "UserFavRemove" ->
                 "User_Favorites.php?accountid=" \o a.accountID \o "&seriesid="
                 \o ToString(a.seriesID) \o "&type=remove"
          [] call.method = "UserRatings" ->
                 "GetRatingsForUser.php?accountid=" \o a.accountID \o "&apikey="
                 \o client.APIKey
          [] call.method = "UserRatingsSeries" ->
                 "GetRatingsForUser.php?accountid=" \o a.accountID \o "&apikey="
                 \o client.APIKey
                 \o (IF a.seriesID # 0 THEN "&seriesid=" \o ToString(a.seriesID) ELSE "")
          [] call.method \in {"SetUserRatingSeries", "SetUserRatingEp"} ->
                 "User_Rating.php?accountid=" \o a.accountID \o "&itemid="
                 \o ToString(a.itemID) \o "&itemtype="
                 \o (IF call.method = "SetUserRatingEp" THEN "episode" ELSE "series")
                 \o "&rating=" \o ToString(a.rating)
          [] call.method = "UserLang" ->
                 "User_PreferredLanguage.php?accountid=" \o a.accountID

\* C14: the URL a call requests is <scheme>://<host>/api/<APIKey>/<resource
\* path> for a call of the static interface and
\* <scheme>://<host>/api/<Script>.php?<encoded query> for any other call, with
\* the scheme and host BaseURL has when the call is made, overridden or not.
C14_RequestURL ==
    (pc = "returned" /\ reqs # <<>>) =>
        reqs[1] = IF call.method \in StaticCalls
                  THEN APIPrefix \o client.APIKey \o "/" \o ResourcePath
                  ELSE APIPrefix \o ScriptAndQuery
C14_Witness ==
    /\ pc = "returned"
    /\ client.BaseURL # DefaultBaseURL
    /\ call.method = "SeriesByID"
    /\ reqs = <<"http://127.0.0.1:8080/api/0629B785CE550C8D/series/1/en.xml">>

\* C15: SearchSeries and SeriesByRemoteID send the parameter language, with
\* the caller's value, exactly when lang is not empty, and apart from it only
\* the search key: seriesname=<term>, or <service>=<id>.
C15_LanguageParameter ==
    (pc = "returned" /\ call.method \in {"SearchSeries", "SeriesByRemoteID"}) =>
        LET a == call.args
            script == IF call.method = "SearchSeries" THEN "GetSeries.php"
                      ELSE "GetSeriesByRemoteID.php"
            key == IF call.method = "SearchSeries" THEN "seriesname=" \o Escaped(a.term)
                   ELSE a.service \o "=" \o a.id
            language == "language=" \o a.lang
        IN  /\ Len(reqs) = 1
            /\ a.lang = "" => reqs[1] = APIPrefix \o script \o "?" \o key
            /\ a.lang # "" =>
                   reqs[1] \in {APIPrefix \o script \o "?" \o key \o "&" \o language,
                                APIPrefix \o script \o "?" \o language \o "&" \o key}
C15_Witness ==
    /\ pc = "returned"
    /\ call.method = "SearchSeries"
    /\ call.args.lang = ""
    /\ reqs = <<"http://thetvdb.com/api/GetSeries.php?seriesname=The+Simpsons">>

\* C16: SeriesByID with an empty lang requests the URL that SeriesByID with
\* lang "en" requests, api/<key>/series/<id>/en.xml; a lang that is not empty
\* is the last path segment as it is.
C16_DefaultLanguage ==
    (pc = "returned" /\ call.method = "SeriesByID") =>
        LET series == APIPrefix \o client.APIKey \o "/series/" \o ToString(call.args.id) \o "/"
        IN  /\ Len(reqs) = 1
            /\ call.args.lang = "" =>
                   /\ reqs[1] = series \o "en.xml"
                   /\ \A o \in Outcomes :
                          SeriesByID(client, call.args.id, "en", o).gr.gets = reqs
            /\ call.args.lang # "" => reqs[1] = series \o call.args.lang \o ".xml"
C16_Witness ==
    /\ pc = "returned"
    /\ call.method = "SeriesByID"
    /\ call.args = [id |-> 2, lang |-> ""]
    /\ reqs = <<"http://thetvdb.com/api/90D7DF3AE9E4841E/series/2/en.xml">>

\* C17: under api/<key>/, EpisodeBySeries requests
\* series/<id>/default/<season>/<episode>/<lang>.xml, EpisodeBySeriesDVD
\* series/<id>/dvd/<season>/<episode>/<lang>.xml and EpisodeBySeriesAbsolute
\* series/<id>/absolute/<episode>/<lang>.xml, without a season.
C17_EpisodeBySeriesPaths ==
    (pc = "returned"
     /\ call.method \in {"EpisodeBySeries", "EpisodeBySeriesDVD", "EpisodeBySeriesAbsolute"}) =>
        LET a == call.args
            order == IF call.method = "EpisodeBySeries" THEN "default"
                     ELSE IF call.method = "EpisodeBySeriesDVD" THEN "dvd" ELSE "absolute"
            number == IF call.method = "EpisodeBySeriesAbsolute" THEN ToString(a.episode)
                      ELSE ToString(a.season) \o "/" \o ToString(a.episode)
        IN  reqs = <<APIPrefix \o client.APIKey \o "/series/" \o ToString(a.id) \o "/" \o order
                     \o "/" \o number \o "/" \o a.lang \o ".xml">>
C17_Witness ==
    /\ pc = "returned"
    /\ call.method = "EpisodeBySeriesDVD"
    /\ call.args = [id |-> 1, season |-> 0, episode |-> 12, lang |-> "en"]
    /\ reqs = <<"http://thetvdb.com/api/90D7DF3AE9E4841E/series/1/dvd/0/12/en.xml">>

\* C18: when SearchSeries, Languages, ActorsBySeries or UserFavs returns no
\* error, the list it returns has one element for each matching child
\* element of the response, in the order of the document: as many elements as
\* the document has, the i-th being the document's i-th.
C18_ListInDocumentOrder ==
    (pc = "returned" /\ ret.err = NoErr /\ ~ret.panic
     /\ call.method \in {"SearchSeries", "Languages", "ActorsBySeries", "UserFavs"}) =>
        LET doc == resp.body.items
            list == IF ret.vals[1] = Nil THEN <<>> ELSE ret.vals[1].items
        IN  /\ Len(ret.vals) = 1
            /\ Len(list) = Len(doc)
            /\ \A i \in 1..Len(doc) : list[i] = doc[i]
C18_Witness ==
    /\ pc = "returned"
    /\ call.method = "SearchSeries"
    /\ ret.err = NoErr
    /\ resp.body.items = <<2, 1>>
    /\ ret.vals = <<[kind |-> "list", items |-> <<2, 1>>]>>

\* The places of an episode in a Seasons mapping: the keys and the positions
\* in the key's list at which it stands.
PlacesOf(seasons, episode) ==
    {p \in UNION {{<<k, j>> : j \in 1..Len(seasons.m[k])} : k \in DOMAIN seasons.m} :
        seasons.m[p[1]][p[2]] = episode}

\* C19: the series GetSeriesFull returns without error has a Seasons mapping
\* that is not nil, also when the response has no episode, while the series
\* GetSeriesByID returns has a nil one; each episode of the response stands at
\* exactly one place of the mapping, in the list of its own SeasonNumber; the
\* mapping holds nothing else, and each list keeps the order of the response.
C19_SeasonsMapping ==
    (pc = "returned" /\ ret.err = NoErr /\ call.method \in {"GetSeriesByID", "GetSeriesFull"}) =>
        LET seasons == ret.vals[1].Seasons
            episodes == resp.body.episodes
        IN  /\ call.method = "GetSeriesByID" => seasons.nil
            /\ call.method = "GetSeriesFull" =>
                   /\ ~seasons.nil
                   /\ \A i \in 1..Len(episodes) :
                          /\ Cardinality(PlacesOf(seasons, episodes[i])) = 1
                          /\ \A p \in PlacesOf(seasons, episodes[i]) :
                                 p[1] = episodes[i].SeasonNumber
                   /\ \A k \in DOMAIN seasons.m :
                          /\ seasons.m[k] # <<>>
                          /\ \A j \in 1..Len(seasons.m[k]) :
                                 \E i \in 1..Len(episodes) : episodes[i] = seasons.m[k][j]
                          /\ \A j1, j2 \in 1..Len(seasons.m[k]) :
                                 j1 < j2 => seasons.m[k][j1].ID < seasons.m[k][j2].ID
C19_Witness ==
    /\ pc = "returned"
    /\ call.method = "GetSeriesFull"
    /\ ret.err = NoErr
    /\ Len(resp.body.episodes) = 3
    /\ ret.vals[1].Seasons =
           [nil |-> FALSE,
            m |-> (0 :> <<[ID |-> 2, SeasonNumber |-> 0]>>)
                  @@ (1 :> <<[ID |-> 1, SeasonNumber |-> 1], [ID |-> 3, SeasonNumber |-> 1]>>)]

\* The requests the call of a frame makes when it runs alone on the client
\* the frame began with.
TransportFails == CHOOSE o \in Outcomes : o.kind = "transport"
Alone(f) ==
    CASE f.method = "SeriesByID" ->
             SeriesByID(f.c0, f.args.id, f.args.lang, TransportFails).gr.gets
      [] f.method = "SearchSeries" ->
             SearchSeries(f.c0, f.args.term, f.args.lang, TransportFails).gr.gets
      [] f.method = "UserRatings" -> UserRatings(f.c0, f.args.accountID, TransportFails).gr.gets

\* C20: while goroutines run calls on one client, in any interleaving of
\* their steps, the client's APIKey, BaseURL and HTTPClient stay what they
\* were when each call began, and the URL a call requests is the URL the same
\* call requests when it runs alone.
C20_ConcurrentCalls ==
    \A p \in Procs :
        /\ pc[p] # "idle" => client = call[p].c0
        /\ pc[p] = "requested" => reqs[p] = Alone(call[p])
        /\ pc[p] # "requested" => reqs[p] = <<>>
C20_Witness ==
    /\ pc[1] = "requested"
    /\ pc[2] = "path"
    /\ call[1].method = "SeriesByID"
    /\ call[2].method = "SearchSeries"
    /\ client.BaseURL # DefaultBaseURL
    /\ reqs[1] = <<"http://127.0.0.1:8080/api/90D7DF3AE9E4841E/series/1/en.xml">>

\* C21: SetUserRatingSeries and SetUserRatingEp, called with a rating within
\* 0..10 and answered with status 200 and a well-formed body, return no
\* error.
C21_ValidRatingSucceeds ==
    (IsSetUserRating
     /\ call.args.rating \in MinRating..MaxRating
     /\ resp.received /\ resp.StatusCode = StatusOK /\ resp.body.wellformed) =>
        ret.err = NoErr

\* C22: SeriesAllByID, EpisodeByID, EpisodeBySeries, EpisodeBySeriesDVD and
\* EpisodeBySeriesAbsolute, called with an empty lang, request the URL they
\* request for the lang "en": no request has an empty language segment.
C22_EmptyLangIsEnglish ==
    (pc = "returned"
     /\ call.method \in {"SeriesAllByID", "EpisodeByID", "EpisodeBySeries",
                         "EpisodeBySeriesDVD", "EpisodeBySeriesAbsolute"}
     /\ call.args.lang = "") =>
        LET a == call.args
            key == APIPrefix \o client.APIKey \o "/"
            id == ToString(a.id)
        IN  reqs =
                CASE call.method = "SeriesAllByID" -> <<key \o "series/" \o id \o "/all/en.xml">>
                  [] call.method = "EpisodeByID" -> <<key \o "episodes/" \o id \o "/en.xml">>
                  [] call.method = "EpisodeBySeries" ->
                         <<key \o "series/" \o id \o "/default/" \o ToString(a.season) \o "/"
                           \o ToString(a.episode) \o "/en.xml">>
                  [] call.method = "EpisodeBySeriesDVD" ->
                         <<key \o "series/" \o id \o "/dvd/" \o ToString(a.season) \o "/"
                           \o ToString(a.episode) \o "/en.xml">>
                  [] call.method = "EpisodeBySeriesAbsolute" ->
                         <<key \o "series/" \o id \o "/absolute/" \o ToString(a.episode)
                           \o "/en.xml">>

\* C23: whenever the GET of a call returned a response, with status 200 or
\* not, decoded or not, the body of the response is closed when the call
\* returns.
C23_BodyClosed ==
    (pc = "returned" /\ resp.received) => resp.closed

\* C24: UserRatingsSeries, for a response fetched and decoded without error,
\* with or without a Series rating in it, returns normally: a series rating
\* and the episode ratings, or an error.
C24_UserRatingsSeriesReturns ==
    (pc = "returned" /\ call.method = "UserRatingsSeries"
     /\ resp.received /\ resp.StatusCode = StatusOK /\ resp.body.wellformed) =>
        /\ ~ret.panic
        /\ ret.err # NoErr \/ (Len(ret.vals) = 2 /\ ret.vals[1].kind = "ptr")

\* C28: pipeList.UnmarshalXML, for every text, also one made of "|" only,
\* yields a list that is empty or whose first and last elements are not
\* empty; it never yields the list of the one empty string.
C28_NoEmptyElementList ==
    (decField = "pipeList" /\ decIn.ok) =>
        /\ decOut.recv # << <<>> >>
        /\ \/ decOut.recv = <<>>
           \/ (decOut.recv[1] # <<>> /\ decOut.recv[Len(decOut.recv)] # <<>>)

\* C29: UserFavs requests api/User_Favorites.php with accountid alone;
\* UserFavAdd and UserFavRemove send accountid, seriesid=<id> and type=add or
\* type=remove, so type and seriesid come together or not at all; a call that
\* returns no error returns the series ids of the response, in its order.
C29_UserFavorites ==
    (pc = "returned" /\ call.method \in {"UserFavs", "UserFavAdd", "UserFavRemove"}) =>
        LET account == APIPrefix \o "User_Favorites.php?accountid=" \o call.args.accountID
            ids == IF ret.vals[1] = Nil THEN <<>> ELSE ret.vals[1].items
        IN  /\ call.method = "UserFavs" => reqs = <<account>>
            /\ call.method = "UserFavAdd" =>
                   reqs = <<account \o "&seriesid=" \o ToString(call.args.seriesID)
                            \o "&type=add">>
            /\ call.method = "UserFavRemove" =>
                   reqs = <<account \o "&seriesid=" \o ToString(call.args.seriesID)
                            \o "&type=remove">>
            /\ Len(ret.vals) = 1
            /\ ret.err = NoErr => ids = resp.body.items
            /\ ret.err # NoErr => ret.vals[1] = Nil
C29_Witness ==
    /\ pc = "returned"
    /\ call.method = "UserFavAdd"
    /\ call.args.seriesID = 2
    /\ ret.err = NoErr
    /\ reqs = <<"http://thetvdb.com/api/User_Favorites.php?accountid=34A8615ABE815874&seriesid=2&type=add">>
    /\ ret.vals = <<[kind |-> "list", items |-> <<1, 2>>]>>

\* C30: GetSeriesByID, GetSeriesByRemoteID and GetSeriesFull of the early
\* client return a series exactly when the response was decoded and holds
\* one Series element, and then that element; with no Series element, or
\* with two or more, they return an error and a nil series.
C30_ExactlyOneSeries ==
    (pc = "returned"
     /\ call.method \in {"GetSeriesByID", "GetSeriesByRemoteID", "GetSeriesFull"}) =>
        LET decoded == resp.received /\ resp.StatusCode = StatusOK /\ resp.body.wellformed
            series == resp.body.items
        IN  /\ Len(ret.vals) = 1
            /\ ret.err = NoErr <=> (decoded /\ Len(series) = 1)
            /\ ret.err = NoErr => (ret.vals[1] # Nil /\ ret.vals[1].ID = series[1])
            /\ ret.err # NoErr => ret.vals[1] = Nil
            /\ (decoded /\ Len(series) # 1) => ret.err = TooManySeries(Len(series))
C30_Witness ==
    /\ pc = "returned"
    /\ call.method = "GetSeriesByRemoteID"
    /\ resp.StatusCode = StatusOK
    /\ resp.body.wellformed
    /\ resp.body.items = <<1, 2>>
    /\ ret.err = [type |-> "series count", got |-> 2]
    /\ ret.vals = <<Nil>>

\* A match whose id parses, and what its fetch comes to: the series, a
\* syntax error, or another error.
Parses(m) == m.text # LongID
FetchedOK(m) ==
    Parses(m) /\ m.o.kind = "response" /\ m.o.body.wellformed /\ Len(m.o.body.items) = 1
SyntaxError(m) == Parses(m) /\ m.o.kind = "response" /\ ~m.o.body.wellformed
OtherError(m) == Parses(m) /\ ~FetchedOK(m) /\ ~SyntaxError(m)
IDOf(m) == CHOOSE n \in 1..9 : <<ToString(n)>> = m.text
SeriesOf(ms) ==
    LET ok == SelectSeq(ms, FetchedOK)
    IN  [i \in 1..Len(ok) |-> [ID |-> ok[i].o.body.items[1], Seasons |-> NilMap]]
FetchURLs(ms) ==
    LET ps == SelectSeq(ms, Parses)
    IN  [i \in 1..Len(ps) |->
            "http://thetvdb.com/api/" \o client.APIKey \o "/series/" \o ToString(IDOf(ps[i]))
            \o "/en.xml"]
IsSearch(method) ==
    /\ pc = "returned"
    /\ call.method = method
    /\ resp.received /\ resp.body.readable
    /\ ~ret.panic

\* C25: the list SearchSeries(name, maxResults) returns without error has at
\* most maxResults elements, none of them a zero value: it is made of the
\* series fetched for the matched ids, in match order, up to maxResults of
\* them, and no series is fetched once maxResults are collected.
C25_AtMostMaxResults ==
    (IsSearch("TVDB.SearchSeries") /\ ret.err = NoErr) =>
        LET list == ret.vals[1].items
            fetched == SeriesOf(resp.body.matches)
            n == IF Len(fetched) < call.args.maxResults THEN Len(fetched)
                 ELSE call.args.maxResults
        IN  /\ Len(list) <= call.args.maxResults
            /\ \A i \in 1..Len(list) : list[i] # ZeroSeries
            /\ list = SubSeq(fetched, 1, n)
            /\ Len(reqs) - 1 <= Len(FetchURLs(resp.body.matches))
            /\ Len(fetched) >= call.args.maxResults =>
                   \E k \in 0..Len(resp.body.matches) :
                       /\ Len(SeriesOf(SubSeq(resp.body.matches, 1, k))) = call.args.maxResults
                       /\ Tail(reqs) = FetchURLs(SubSeq(resp.body.matches, 1, k))

\* C26: the list the SearchSeries that returns ids returns is made of the ids
\* of the matches whose id parses, one for each and in match order, and of
\* nothing else.
C26_ExactlyTheMatchedIDs ==
    (IsSearch("API.SearchSeries") /\ ret.err = NoErr) =>
        LET ps == SelectSeq(resp.body.matches, Parses)
        IN  ret.vals[1].items = [i \in 1..Len(ps) |-> IDOf(ps[i])]

\* C27: in SearchSeries(name, maxResults), a fetch that fails with an XML
\* syntax error is passed over and the matches after it are still fetched; the
\* first fetch that fails with another error ends the call at once, which
\* returns that error and the slice as built so far: its initial entries and,
\* after them, the series fetched before the failure.
C27_SearchSeriesErrors ==
    IsSearch("TVDB.SearchSeries") =>
        LET ms == resp.body.matches
            failing == {i \in 1..Len(ms) : OtherError(ms[i])}
            k == IF failing = {} THEN Len(ms) ELSE CHOOSE i \in failing : \A j \in failing : i <= j
            done == SubSeq(ms, 1, k)
            list == ret.vals[1].items
            built == SeriesOf(done)
        IN  /\ Tail(reqs) = FetchURLs(done)
            /\ failing = {} <=> ret.err = NoErr
            /\ failing # {} =>
                   ret.err = IF ms[k].o.kind = "transport" THEN [type |-> "transport"]
                             ELSE TooManySeries(Len(ms[k].o.body.items))
            /\ ret.vals[1].kind = "list"
            /\ Len(list) >= Len(built)
            /\ SubSeq(list, Len(list) - Len(built) + 1, Len(list)) = built
C27_Witness ==
    /\ IsSearch("TVDB.SearchSeries")
    /\ Len(resp.body.matches) = 3
    /\ SyntaxError(resp.body.matches[1])
    /\ FetchedOK(resp.body.matches[2])
    /\ OtherError(resp.body.matches[3])
    /\ Len(reqs) = 4
    /\ ret.err = [type |-> "transport"]
    /\ ret.vals[1].items[Len(ret.vals[1].items)] = [ID |-> 2, Seasons |-> NilMap]

====
